---- MODULE Spec2Model ----
(***************************************************************************)
(* Verification model of the document ingestion pipeline of                *)
(* OpenMonica_fileserver: the backend selector                             *)
(* (scripts/singleton_embedding_legacy.py) and the segmenter, chunker,     *)
(* enricher and persistence writer (scripts/mineru_process_legacy.py).     *)
(***************************************************************************)
EXTENDS Integers, Sequences, FiniteSets, TLC

(***************************************************************************)
(* Bounds of the model.                                                    *)
(***************************************************************************)
MaxInst == 2        \* configured instances per capability type: 0..MaxInst
MaxPieces == 4      \* pieces an input text of the segmenter is made of
MaxLen == 4         \* size of a staging file of the chunker: characters of
                    \* its texts plus number of its images
MaxChunk == 2       \* chunk_size and chunk_overlap: 0..MaxChunk
MaxStaged == 2      \* items in the staging file of a pipeline run
MaxSem == 2         \* largest configured embedding semaphore
NumRuns == 2        \* concurrent mineru_process calls
NumWriters == 2     \* concurrent calls of the persistence writer
MaxCalls == 3       \* get_latest_embedding_instance calls per behaviour
NumCallers == 2     \* concurrent callers (threads) of the selector
MaxDocs == 2        \* documents of the knowledge base of a tag extraction
MaxDesc == 2        \* characters of a description of the multimodal backend
NumUploads == 2     \* concurrent upload_file calls of one user

\* the number of tags the prompt of extract_summary asks for at most
TagsAtMost == 6

(***************************************************************************)
(* Variables.                                                              *)
(***************************************************************************)
VARIABLES
    \* ---- backend selector (singleton_embedding_legacy.py) ----
    cfg,            \* config["api"]: number of instances of each type
    callers,        \* the threads that call the selector
    shared_index,   \* _shared_index
    type_indices,   \* _type_indices: dict type -> cursor
    alias_indices,  \* _alias_indices: dict alias -> cursor
    lock,           \* _lock: 0 when free, else the caller that holds it
    selpc,          \* position of each caller inside get_latest_embedding_instance
    selarg,         \* arguments (alias, instance_type) of the running call
    latest_index,   \* the local latest_index of the running call
    hist,           \* completed calls: <<criterion, outcome>> -> how many
    ncalls,         \* calls started so far
    \* ---- segmenter (find_all_text_and_image_index) ----
    segText,        \* the argument text
    segConverted,   \* the returned converted_text
    segResults,     \* the returned results: <<start, end, kind>> tuples
    segpc,          \* "call" before the call, "done" after it, "saved"
    segItems,       \* save_results_to_json_sync: the returned results_dict
    \* ---- chunker (split_text_by_json, split_text) ----
    chunk_size,     \* config["text_chunk_strategy"]["SlidingWindow"]["chunk_size"]
    chunk_overlap,  \* config["text_chunk_strategy"]["SlidingWindow"]["chunk_overlap"]
    results_dict,   \* the items read from the staging file
    new_results,    \* new_results_dict_list
    itemIdx,        \* position of the for loop over results_dict (1-based)
    splitText,      \* split_text: the argument text
    start,          \* split_text: the window start cursor
    new_text,       \* split_text: the chunks collected so far
    iters,          \* split_text: iterations of the while loop so far
    chunkpc,        \* position inside split_text_by_json
    \* ---- ingestion pipeline (mineru_process), one entry per run ----
    runs,           \* the mineru_process calls of the behaviour
    semaphore,      \* config["embedding_settings"]["semaphore"]
    mode,           \* the mode argument
    ppc,            \* position inside mineru_process
    staged,         \* the items in the staging file
    results_in,     \* embedding_json_file: results_dict, as read from the file
    emb,            \* embedding_json_file: the _embed tasks
    client,         \* embedding_json_file: shared_client
    saves,          \* the save_something_to_vcdb tasks
    rows,           \* indices of the chunk and photo rows of the document
    docrow,         \* the document row: "absent", "created" (no URLs), "urls"
    files,          \* the scratch files on disk
    conn,           \* whether the local conn is assigned
    ret,            \* the value a return statement has set aside
    result,         \* "none" while running, else how the call ended
    \* ---- persistence writer (save_text_to_vcdb_text_table, ...) ----
    writers,        \* the save calls of the behaviour
    users,          \* chunk_schema.users: committed ids
    kbs,            \* chunk_schema.knowledge_bases: committed <<id, user_id>>
    docs,           \* chunk_schema.documents: committed <<id, knowledge_base_id>>
    rowtbl,         \* chunk_schema.chunks and photos: committed rows
    wpc,            \* position of each call
    warg,           \* arguments of each call
    pend,           \* uncommitted rows of the transaction of each call
    wres,           \* "none", "ok" or the error that ended the call
    skips,          \* the tables where the INSERT of the call did nothing
    mismatch,       \* the call named a knowledge base of another user or a
                    \* document of another knowledge base
    \* ---- retried backend calls (describe_photo, embedding_text) ----
    rfn,            \* the decorated function that is called
    rlog,           \* what each attempt of the call met, in order
    rpc,            \* "attempt" while the call runs, "done" after it
    rres,           \* "none", "ok" or the exception the caller sees
    \* ---- download_file ----
    durl,           \* download_file: the argument file_url
    dcfg,           \* server_components.minio of the configuration
    dpc,            \* position inside download_file
    dattempt,       \* the attempt of the retry decorator that runs
    dreqs,          \* the requests made so far, in order
    dres,           \* how the call ended and the request whose error it raised
    \* ---- tag extraction (produce_document_graph) ----
    gdocs,          \* the documents rows of the knowledge base, as fetched
    gfound,         \* whether the user row and the knowledge base row exist
    gpc,            \* position inside produce_document_graph
    gtasks,         \* the single_document_summary tasks, one per document
    gtags,          \* the tags column of each document, as the transaction sees it
    gnext,          \* position of the write loop over the documents
    gstore,         \* "failed" once a statement of the store has failed
    gret,           \* the returned dict
    \* ---- FileManager.upload_file ----
    udocs,          \* the rows of the documents table
    uarg,           \* upload_file: file_data, user_id, enable_ocr and the detected MIME type
    upc,            \* position inside upload_file
    uhad,           \* the digest belonged to a stored document of the user at the call
    uuploads,       \* uploads to the object store made by the call
    uobjects,       \* the objects of the call in the object store
    uocr,           \* the documents an OCR task was started for
    uret,           \* the returned dict
    \* ---- delete_file_from_vcdb ----
    delstore0,      \* the store as the call found it
    delkbs,         \* chunk_schema.knowledge_bases: <<id, user_id>>
    deldocs,        \* chunk_schema.documents: <<id, knowledge_base_id>>
    delrows,        \* chunk_schema.chunks and photos: <<kind, document_id>>
    delindex,       \* knowledge_bases.document_ids of each knowledge base
    delarg,         \* delete_file_from_vcdb: user_id, knowledge_base_id, file_id
    delpc,          \* position inside delete_file_from_vcdb
    delres,         \* "none", "True", "False" or the exception raised
    \* ---- split_text as a function ----
    stext,          \* split_text: the argument text
    ssize,          \* config["text_chunk_strategy"]["SlidingWindow"]["chunk_size"]
    soverlap,       \* config["text_chunk_strategy"]["SlidingWindow"]["chunk_overlap"]
    swindows,       \* the windows <<start, end>> the while loop took
    schunks,        \* the returned list new_text
    sagain,         \* split_text of each returned chunk
    spc,            \* "call", "done" after the return, "again", or "spin"
    \* ---- image descriptions (extract_photo_url, replace_photo_text) ----
    phcontent,      \* the content of the image item
    phurl0,         \* the URL handed to describe_photo
    phurl1,         \* the photo_url of save_something_to_vcdb
    phpc,           \* position: "task", "describe", "replaced", "saved"
    \* ---- enrichment (save_results_to_json, embedding_json_file) ----
    eitems0,        \* results_dict as save_results_to_json_sync returned it
    eitems,         \* the items of the staging file
    edone,          \* the tasks of the running gather that have completed, in completion order
    eorders,        \* the completion orders of the gathers that have returned
    epc,            \* "describe", "embed" or "done"
    \* ---- concurrent FileManager.upload_file calls ----
    cdocs,          \* the rows of the documents table
    cobjects,       \* the objects the calls have put in the object store
    cpc,            \* position of each call inside upload_file
    cret            \* the dict each call returned

selVars == <<cfg, callers, shared_index, type_indices, alias_indices, lock,
             selpc, selarg, latest_index, hist, ncalls>>

segVars == <<segText, segConverted, segResults, segpc, segItems>>

chunkVars == <<chunk_size, chunk_overlap, results_dict, new_results, itemIdx,
               splitText, start, new_text, iters, chunkpc>>

pipeVars == <<runs, semaphore, mode, ppc, staged, results_in, emb, client, saves, rows,
              docrow, files, conn, ret, result>>

dbVars == <<writers, users, kbs, docs, rowtbl, wpc, warg, pend, wres, skips, mismatch>>

retryVars == <<rfn, rlog, rpc, rres>>

downloadVars == <<durl, dcfg, dpc, dattempt, dreqs, dres>>

graphVars == <<gdocs, gfound, gpc, gtasks, gtags, gnext, gstore, gret>>

uploadVars == <<udocs, uarg, upc, uhad, uuploads, uobjects, uocr, uret>>

deleteVars == <<delstore0, delkbs, deldocs, delrows, delindex, delarg, delpc, delres>>

splitTextVars == <<stext, ssize, soverlap, swindows, schunks, sagain, spc>>

photoVars == <<phcontent, phurl0, phurl1, phpc>>

enrichVars == <<eitems0, eitems, edone, eorders, epc>>

concUploadVars == <<cdocs, cobjects, cpc, cret>>

vars == <<selVars, segVars, chunkVars, pipeVars, dbVars, retryVars, downloadVars, graphVars, uploadVars, deleteVars, splitTextVars, photoVars, enrichVars, concUploadVars>>

\* the iterations of the sliding-window loop that are followed: a text of
\* MaxLen characters needs at most MaxLen of them
MaxIters == MaxLen + 1

\* what the operations of one component leave alone
notSel == <<segVars, chunkVars, pipeVars, dbVars, retryVars, downloadVars, graphVars, uploadVars, deleteVars, splitTextVars, photoVars, enrichVars, concUploadVars>>
notSeg == <<selVars, chunkVars, pipeVars, dbVars, retryVars, downloadVars, graphVars, uploadVars, deleteVars, splitTextVars, photoVars, enrichVars, concUploadVars>>
notChunk == <<selVars, segVars, pipeVars, dbVars, retryVars, downloadVars, graphVars, uploadVars, deleteVars, splitTextVars, photoVars, enrichVars, concUploadVars>>
notPipe == <<selVars, segVars, chunkVars, dbVars, retryVars, downloadVars, graphVars, uploadVars, deleteVars, splitTextVars, photoVars, enrichVars, concUploadVars>>
notDb == <<selVars, segVars, chunkVars, pipeVars, retryVars, downloadVars, graphVars, uploadVars, deleteVars, splitTextVars, photoVars, enrichVars, concUploadVars>>
notRetry == <<selVars, segVars, chunkVars, pipeVars, dbVars, downloadVars, graphVars, uploadVars, deleteVars, splitTextVars, photoVars, enrichVars, concUploadVars>>
notDownload == <<selVars, segVars, chunkVars, pipeVars, dbVars, retryVars, graphVars, uploadVars, deleteVars, splitTextVars, photoVars, enrichVars, concUploadVars>>
notGraph == <<selVars, segVars, chunkVars, pipeVars, dbVars, retryVars, downloadVars, uploadVars, deleteVars, splitTextVars, photoVars, enrichVars, concUploadVars>>
notUpload == <<selVars, segVars, chunkVars, pipeVars, dbVars, retryVars, downloadVars, graphVars, deleteVars, splitTextVars, photoVars, enrichVars, concUploadVars>>
notDelete == <<selVars, segVars, chunkVars, pipeVars, dbVars, retryVars, downloadVars, graphVars, uploadVars, splitTextVars, photoVars, enrichVars, concUploadVars>>
notSplitText == <<selVars, segVars, chunkVars, pipeVars, dbVars, retryVars, downloadVars, graphVars, uploadVars, deleteVars, photoVars, enrichVars, concUploadVars>>
notPhoto == <<selVars, segVars, chunkVars, pipeVars, dbVars, retryVars, downloadVars, graphVars, uploadVars, deleteVars, splitTextVars, enrichVars, concUploadVars>>
notEnrich == <<selVars, segVars, chunkVars, pipeVars, dbVars, retryVars, downloadVars, graphVars, uploadVars, deleteVars, splitTextVars, photoVars, concUploadVars>>
notConcUpload == <<selVars, segVars, chunkVars, pipeVars, dbVars, retryVars, downloadVars, graphVars, uploadVars, deleteVars, splitTextVars, photoVars, enrichVars>>

(***************************************************************************)
(* Backend selector: configuration.                                        *)
(***************************************************************************)
Types == <<"language_embedding", "multimodal_llm", "language_llm">>
TypeSet == {Types[i] : i \in 1..3}

\* the alias configured on the j-th instance (1-based) of a type; "" is an
\* instance without alias
AliasOf(t, j) ==
    IF t = "language_embedding" THEN "bge-m3"
    ELSE IF t = "multimodal_llm" THEN (IF j % 2 = 1 THEN "vl" ELSE "")
    ELSE "vl"

\* readed_*_list: the instances of one type, each instance is <<type, j>>
TypeList(c, t) == [j \in 1..c[t] |-> <<t, j>>]

\* _type_instances
TypeInstances(c) == [t \in TypeSet |-> TypeList(c, t)]

\* _all_instances = embeddings + multimodal + language
AllInstances(c) ==
    TypeList(c, Types[1]) \o TypeList(c, Types[2]) \o TypeList(c, Types[3])

HasAlias(inst, a) == AliasOf(inst[1], inst[2]) = a

\* the aliases that _initialize_alias_cache finds (falsy aliases are skipped)
AliasKeys(c) ==
    {AliasOf(AllInstances(c)[i][1], AllInstances(c)[i][2]) :
        i \in 1..Len(AllInstances(c))} \ {""}

\* _alias_instances_cache after _initialize_alias_cache
AliasCache(c) ==
    [a \in AliasKeys(c) |->
        SelectSeq(AllInstances(c), LAMBDA inst : HasAlias(inst, a))]

\* a lookup that falls back to all instances for an alias it does not know
GetInstancesByAliasOrAll(c, a) ==
    IF a \in DOMAIN AliasCache(c) THEN AliasCache(c)[a] ELSE AllInstances(c)

\* _get_instances_by_alias
GetInstancesByAlias(c, a) ==
    IF a \in DOMAIN AliasCache(c) THEN AliasCache(c)[a] ELSE <<>>

\* _get_instances_by_type
GetInstancesByType(c, t) ==
    IF t \in TypeSet THEN TypeInstances(c)[t] ELSE <<>>

\* _get_index_for_alias / _get_index_for_type: a dict lookup with default 0
GetIndexFor(dict, key) == IF key \in DOMAIN dict THEN dict[key] ELSE 0

\* a wrap test that lets the cursor reach the group size
WrapIndexLate(i, n) == IF i > n THEN 0 ELSE i

\* the wrap test of _addindex, _addindex_for_alias and _addindex_for_type
WrapIndex(i, n) == IF i > n - 1 THEN 0 ELSE i

\* arguments a caller may pass; "None" is Python's None
AliasArgs == {"None", "", "bge-m3", "vl", "missing"}
TypeArgs == {"None", "bogus"} \cup TypeSet

\* a mutual-exclusion check on the truth value of the arguments
\* ("if alias and instance_type") instead of "is not None"
CriterionTruthy(a, t) ==
    IF a \notin {"None", ""} /\ t \notin {"None", ""} THEN <<"usage", "">>
    ELSE IF a # "None" /\ a # "" THEN <<"alias", a>>
    ELSE IF t # "None" /\ t # "" THEN <<"type", t>>
    ELSE <<"none", "">>

\* the criterion a call rotates over; "usage" is the rejected combination
Criterion(a, t) ==
    IF a # "None" /\ t # "None" THEN <<"usage", "">>
    ELSE IF a # "None" /\ a # "" THEN <<"alias", a>>
    ELSE IF t # "None" /\ t # "" THEN <<"type", t>>
    ELSE <<"none", "">>

\* the instance list a criterion rotates over
Group(c, crit) ==
    IF crit[1] = "alias" THEN GetInstancesByAlias(c, crit[2])
    ELSE IF crit[1] = "type" THEN GetInstancesByType(c, crit[2])
    ELSE IF crit[1] = "none" THEN AllInstances(c)
    ELSE <<>>

\* the cursor a criterion reads
Cursor(crit) ==
    IF crit[1] = "alias" THEN GetIndexFor(alias_indices, crit[2])
    ELSE IF crit[1] = "type" THEN GetIndexFor(type_indices, crit[2])
    ELSE shared_index

(***************************************************************************)
(* Backend selector: state machine.                                        *)
(***************************************************************************)
SelInit(cs) ==
    /\ cfg \in [TypeSet -> 0..MaxInst]
    /\ callers = cs
    /\ shared_index = 0
    /\ type_indices = <<>>
    /\ alias_indices = [a \in AliasKeys(cfg) |-> 0]
    /\ lock = 0
    /\ selpc = [c \in cs |-> "idle"]
    /\ selarg = [c \in cs |-> <<"None", "None">>]
    /\ latest_index = [c \in cs |-> 0]
    /\ hist = <<>>
    /\ ncalls = 0

\* number of completed calls with criterion crit and outcome out
Served(h, crit, out) == IF <<crit, out>> \in DOMAIN h THEN h[<<crit, out>>] ELSE 0

\* the call returns or raises: its locals are dropped
Finish(c, crit, out) ==
    /\ hist' = [k \in DOMAIN hist \cup {<<crit, out>>} |->
                  IF k = <<crit, out>> THEN Served(hist, crit, out) + 1 ELSE hist[k]]
    /\ selpc' = [selpc EXCEPT ![c] = "idle"]
    /\ selarg' = [selarg EXCEPT ![c] = <<"None", "None">>]
    /\ latest_index' = [latest_index EXCEPT ![c] = 0]

\* get_latest_embedding_instance up to and including the read of the cursor:
\* the mutual-exclusion check, the lookup of the group and the unlocked
\* _get_index / _get_index_for_alias / _get_index_for_type
SelectBegin(c, a, t) ==
    /\ selpc[c] = "idle"
    /\ ncalls < MaxCalls
    /\ ncalls' = ncalls + 1
    /\ LET crit == Criterion(a, t) IN
         IF crit[1] = "usage"
         THEN Finish(c, crit, <<"ValueError", 0>>)
         ELSE IF crit[1] # "none" /\ Group(cfg, crit) = <<>>
         THEN Finish(c, crit, <<"ValueError", 0>>)
         ELSE /\ selarg' = [selarg EXCEPT ![c] = <<a, t>>]
              /\ latest_index' = [latest_index EXCEPT ![c] = Cursor(crit)]
              /\ selpc' = [selpc EXCEPT ![c] = "addindex"]
              /\ UNCHANGED hist
    /\ UNCHANGED <<cfg, callers, shared_index, type_indices, alias_indices, lock>>
    /\ UNCHANGED notSel

\* _addindex*: "with _lock:" is entered and the cursor is incremented
AddIndexIncrement(c) ==
    /\ selpc[c] = "addindex"
    /\ lock = 0
    /\ lock' = c
    /\ selpc' = [selpc EXCEPT ![c] = "wrap"]
    /\ LET crit == Criterion(selarg[c][1], selarg[c][2]) IN
         /\ shared_index' =
              IF crit[1] = "none" THEN shared_index + 1 ELSE shared_index
         /\ alias_indices' =
              IF crit[1] = "alias" /\ crit[2] \in DOMAIN alias_indices
                              /\ crit[2] \in DOMAIN AliasCache(cfg)
              THEN [alias_indices EXCEPT ![crit[2]] = @ + 1]
              ELSE alias_indices
         /\ type_indices' =
              IF crit[1] = "type" /\ crit[2] \in TypeSet
              THEN [k \in DOMAIN type_indices \cup {crit[2]} |->
                      IF k = crit[2] THEN GetIndexFor(type_indices, k) + 1
                      ELSE type_indices[k]]
              ELSE type_indices
    /\ UNCHANGED <<cfg, callers, selarg, latest_index, hist, ncalls>>
    /\ UNCHANGED notSel

\* _addindex*: the cursor is wrapped and the lock is released
AddIndexWrap(c) ==
    /\ selpc[c] = "wrap"
    /\ lock = c
    /\ lock' = 0
    /\ selpc' = [selpc EXCEPT ![c] = "return"]
    /\ LET crit == Criterion(selarg[c][1], selarg[c][2])
           n == Len(Group(cfg, crit)) IN
         /\ shared_index' =
              IF crit[1] = "none" THEN WrapIndex(shared_index, n) ELSE shared_index
         /\ alias_indices' =
              IF crit[1] = "alias" /\ crit[2] \in DOMAIN alias_indices
                              /\ crit[2] \in DOMAIN AliasCache(cfg)
              THEN [alias_indices EXCEPT ![crit[2]] = WrapIndex(@, n)]
              ELSE alias_indices
         /\ type_indices' =
              IF crit[1] = "type" /\ crit[2] \in TypeSet
              THEN [type_indices EXCEPT ![crit[2]] = WrapIndex(@, n)]
              ELSE type_indices
    /\ UNCHANGED <<cfg, callers, selarg, latest_index, hist, ncalls>>
    /\ UNCHANGED notSel

\* return _parse_instance_config(instances[latest_index])
SelectReturn(c) ==
    /\ selpc[c] = "return"
    /\ LET crit == Criterion(selarg[c][1], selarg[c][2])
           g == Group(cfg, crit) IN
         IF latest_index[c] < Len(g)
         THEN Finish(c, crit, <<"ok", latest_index[c]>>)
         ELSE Finish(c, crit, <<"IndexError", 0>>)
    /\ UNCHANGED <<cfg, callers, shared_index, type_indices, alias_indices, lock,
                   ncalls>>
    /\ UNCHANGED notSel

SelNext ==
    \E c \in callers :
        \/ \E a \in AliasArgs, t \in TypeArgs : SelectBegin(c, a, t)
        \/ AddIndexIncrement(c)
        \/ AddIndexWrap(c)
        \/ SelectReturn(c)

\* the selector with no instance configured and no caller
SelIdle ==
    /\ cfg = [t \in TypeSet |-> 0]
    /\ callers = {}
    /\ shared_index = 0
    /\ type_indices = <<>>
    /\ alias_indices = <<>>
    /\ lock = 0
    /\ selpc = <<>>
    /\ selarg = <<>>
    /\ latest_index = <<>>
    /\ hist = <<>>
    /\ ncalls = 0

(***************************************************************************)
(* Segmenter: find_all_text_and_image_index (mineru_process_legacy.py).    *)
(* A text is a sequence of one-character strings; offsets are 0-based as   *)
(* in Python, so the character at offset i is text[i + 1].                 *)
(***************************************************************************)
\* text[a:b]
Slice(text, a, b) == SubSeq(text, a + 1, b)

\* the offset of the first occurrence of ch at or after offset from, or -1
RECURSIVE IndexFrom(_, _, _)
IndexFrom(text, ch, from) ==
    IF from >= Len(text) THEN -1
    ELSE IF text[from + 1] = ch THEN from
    ELSE IndexFrom(text, ch, from + 1)

\* offset of the "]" that closes the alt text of a match that starts at p
AltClose(text, p) == IndexFrom(text, "]", p + 2)

\* offset of the ")" that closes the path of a match that starts at p
PathClose(text, p) == IndexFrom(text, ")", AltClose(text, p) + 2)

\* the pattern !\[([^\]]*)\]\(([^)]+)\) matched at offset p: the end offset
\* of the match, or -1 when the pattern does not match there
MatchEnd(text, p) ==
    IF p + 1 >= Len(text) \/ text[p + 1] # "!" \/ text[p + 2] # "[" THEN -1
    ELSE LET q == AltClose(text, p) IN
         IF q = -1 \/ q + 1 >= Len(text) \/ text[q + 2] # "(" THEN -1
         ELSE LET r == PathClose(text, p) IN
              IF r = -1 \/ r < q + 3 THEN -1 ELSE r + 1

\* re.finditer(pattern, text): the leftmost non-overlapping matches from pos
RECURSIVE FindIter(_, _)
FindIter(text, pos) ==
    IF pos >= Len(text) THEN <<>>
    ELSE IF MatchEnd(text, pos) # -1
         THEN <<<<pos, MatchEnd(text, pos), "image">>>> \o FindIter(text, MatchEnd(text, pos))
         ELSE FindIter(text, pos + 1)

\* list.sort(key=lambda x: x[0]): a stable insertion sort on the start offset
RECURSIVE InsertByStart(_, _)
InsertByStart(sorted, x) ==
    IF sorted = <<>> THEN <<x>>
    ELSE IF sorted[Len(sorted)][1] <= x[1] THEN Append(sorted, x)
    ELSE Append(InsertByStart(SubSeq(sorted, 1, Len(sorted) - 1), x), sorted[Len(sorted)])

RECURSIVE SortByStart(_)
SortByStart(seq) ==
    IF seq = <<>> THEN <<>>
    ELSE InsertByStart(SortByStart(SubSeq(seq, 1, Len(seq) - 1)), seq[Len(seq)])

\* the same test with <= in place of <: an empty gap becomes a segment
GapInclusive(from, to) == IF from <= to THEN <<<<from, to, "text">>>> ELSE <<>>

\* the text segment between current_pos and the next image or the end
Gap(from, to) == IF from < to THEN <<<<from, to, "text">>>> ELSE <<>>

\* a loop that appends the image under the same test as the text before it:
\* an image that starts where the previous one ends is dropped
RECURSIVE FillImagesAfterText(_, _, _)
FillImagesAfterText(matches, i, current_pos) ==
    IF i > Len(matches) THEN <<>>
    ELSE (IF current_pos < matches[i][1]
          THEN Gap(current_pos, matches[i][1]) \o <<matches[i]>>
          ELSE <<>>)
            \o FillImagesAfterText(matches, i + 1, matches[i][2])

\* the loop over image_matches: the text before each image, then the image
RECURSIVE FillImages(_, _, _)
FillImages(matches, i, current_pos) ==
    IF i > Len(matches) THEN <<>>
    ELSE Gap(current_pos, matches[i][1]) \o <<matches[i]>>
            \o FillImages(matches, i + 1, matches[i][2])

\* the results list of find_all_text_and_image_index
SegmentResults(text) ==
    LET image_matches == SortByStart(FindIter(text, 0))
        n == Len(image_matches)
        tail == IF n > 0
                THEN Gap(image_matches[n][2], Len(text))
                ELSE Gap(0, Len(text))
    IN SortByStart(FillImages(image_matches, 1, 0) \o tail)

\* f"{public_url_prefix}/{bucket_name}/{user_id}/knowledge_base/{kb}/{doc}/"
UrlPrefix == <<"h", "/">>

\* the absolute URL of an image path: a leading "/" is dropped
AbsoluteUrl(path) ==
    IF Len(path) > 0 /\ path[1] = "/" THEN UrlPrefix \o Tail(path)
    ELSE UrlPrefix \o path

\* the markdown of one image segment with its path rewritten
ConvertImage(md) ==
    IF MatchEnd(md, 0) = -1 THEN md
    ELSE LET q == AltClose(md, 0)
             r == PathClose(md, 0) IN
         <<"!", "[">> \o Slice(md, 2, q) \o <<"]", "(">>
            \o AbsoluteUrl(Slice(md, q + 2, r)) \o <<")">>

\* converted_text: the segments in order, image paths rewritten
RECURSIVE ConvertedText(_, _, _)
ConvertedText(text, results, i) ==
    IF i > Len(results) THEN <<>>
    ELSE (IF results[i][3] = "text"
          THEN Slice(text, results[i][1], results[i][2])
          ELSE ConvertImage(Slice(text, results[i][1], results[i][2])))
         \o ConvertedText(text, results, i + 1)

\* the pieces input texts are assembled from: single characters, broken and
\* complete image references
Pieces == {<<"a">>, <<" ">>, <<"!">>, <<"[">>, <<"]">>, <<"(">>, <<")">>,
           <<"!", "[", "a", "]", "(", "b", ")">>,
           <<"!", "[", "]", "(", "/", "b", ")">>}

RECURSIVE Concat(_)
Concat(ps) == IF ps = <<>> THEN <<>> ELSE Head(ps) \o Concat(Tail(ps))

Texts == {Concat(ps) : ps \in UNION {[1..n -> Pieces] : n \in 0..MaxPieces}}

SegIdle ==
    /\ segText = <<>>
    /\ segConverted = <<>>
    /\ segResults = <<>>
    /\ segItems = <<>>
    /\ segpc = "off"

SegInit ==
    /\ segText \in Texts
    /\ segConverted = <<>>
    /\ segResults = <<>>
    /\ segItems = <<>>
    /\ segpc = "call"

\* find_all_text_and_image_index(text, ...) returns (converted_text, results)
FindAllTextAndImageIndex ==
    /\ segpc = "call"
    /\ segResults' = SegmentResults(segText)
    /\ segConverted' = ConvertedText(segText, SegmentResults(segText), 1)
    /\ segpc' = "done"
    /\ UNCHANGED <<segText, segItems>>
    /\ UNCHANGED notSeg

\* save_results_to_json_sync(converted_text, results): the content of an item
\* is converted_text[result[0]:result[1]]
SaveResultsToJsonSync(converted_text, results) ==
    [i \in DOMAIN results |->
        [content |-> Slice(converted_text, results[i][1], results[i][2]),
         index |-> i - 1, type |-> results[i][3], embedding |-> "None"]]

\* mineru_process hands the returned pair to save_results_to_json, which
\* calls save_results_to_json_sync
SaveResultsToJsonSyncCall ==
    /\ segpc = "done"
    /\ segItems' = SaveResultsToJsonSync(segConverted, segResults)
    /\ segpc' = "saved"
    /\ UNCHANGED <<segText, segConverted, segResults>>
    /\ UNCHANGED notSeg

SegNext == FindAllTextAndImageIndex \/ SaveResultsToJsonSyncCall

(***************************************************************************)
(* Chunker: split_text and split_text_by_json (mineru_process_legacy.py).  *)
(***************************************************************************)
\* not text.strip(): the text is empty or has whitespace only
IsBlank(text) == \A i \in 1..Len(text) : text[i] = " "

\* a chunk kept without the strip() test
KeepAlways(chunk) == <<chunk>>

\* [chunk] if chunk.strip() else []
KeepIfNotBlank(chunk) == IF IsBlank(chunk) THEN <<>> ELSE <<chunk>>

\* the guard against a start that does not advance, with > in place of >=
NextStartGuardLate(start_, size, overlap) ==
    IF overlap > size THEN start_ + size ELSE start_ + size - overlap

\* the start of the next window: end - chunk_overlap, or end when
\* chunk_overlap >= chunk_size
NextStart(start_, size, overlap) ==
    IF overlap >= size THEN start_ + size ELSE start_ + size - overlap

\* an index taken over from the input item
KeepIndex(list, item) == item.index

\* "index": len(new_results_dict_list)
NextIndex(list, item) == Len(list)

\* the entry split_text_by_json appends for one chunk or one image
NewEntry(list, item, content) ==
    [content |-> content, index |-> NextIndex(list, item),
     type |-> item.type, embedding |-> "None"]

\* for chunk in text_chunks: new_results_dict_list.append(...)
RECURSIVE AppendChunks(_, _, _)
AppendChunks(list, item, chunks) ==
    IF chunks = <<>> THEN list
    ELSE AppendChunks(Append(list, NewEntry(list, item, Head(chunks))), item, Tail(chunks))

\* results_dict.sort(key=lambda x: x["index"])
RECURSIVE InsertByIndex(_, _)
InsertByIndex(sorted, x) ==
    IF sorted = <<>> THEN <<x>>
    ELSE IF sorted[Len(sorted)].index <= x.index THEN Append(sorted, x)
    ELSE Append(InsertByIndex(SubSeq(sorted, 1, Len(sorted) - 1), x), sorted[Len(sorted)])

RECURSIVE SortByIndex(_)
SortByIndex(seq) ==
    IF seq = <<>> THEN <<>>
    ELSE InsertByIndex(SortByIndex(SubSeq(seq, 1, Len(seq) - 1)), seq[Len(seq)])

\* content of an image item: ![d](h/b)
ImageContent == <<"!", "[", "d", "]", "(", "h", "/", "b", ")">>

\* the segments a staging file may hold: texts of n characters, or an image
Entries(n) ==
    {<<"text", t>> : t \in UNION {[1..m -> {"a", " "}] : m \in 1..n}}
        \cup (IF n >= 1 THEN {<<"image", ImageContent>>} ELSE {})

\* the size of a segment: the characters of a text, one for an image
Weight(e) == IF e[1] = "text" THEN Len(e[2]) ELSE 1

\* the segment lists of total size at most n
RECURSIVE EntryLists(_)
EntryLists(n) ==
    {<<>>} \cup UNION {{<<e>> \o rest : rest \in EntryLists(n - Weight(e))} : e \in Entries(n)}

\* the items save_results_to_json_sync writes: index is the list position
Items(entries) ==
    [i \in DOMAIN entries |->
        [content |-> entries[i][2], index |-> i - 1, type |-> entries[i][1],
         embedding |-> "None"]]

ItemLists == {Items(entries) : entries \in EntryLists(MaxLen)}

ChunkIdle ==
    /\ chunk_size = 0
    /\ chunk_overlap = 0
    /\ results_dict = <<>>
    /\ new_results = <<>>
    /\ itemIdx = 0
    /\ splitText = <<>>
    /\ start = 0
    /\ new_text = <<>>
    /\ iters = 0
    /\ chunkpc = "off"

ChunkInit ==
    /\ chunk_size \in 0..MaxChunk
    /\ chunk_overlap \in 0..MaxChunk
    /\ results_dict \in ItemLists
    /\ new_results = <<>>
    /\ itemIdx = 0
    /\ splitText = <<>>
    /\ start = 0
    /\ new_text = <<>>
    /\ iters = 0
    /\ chunkpc = "read"

\* split_text_by_json: the staging file is read and sorted by index
SplitRead ==
    /\ chunkpc = "read"
    /\ results_dict' = SortByIndex(results_dict)
    /\ itemIdx' = 1
    /\ chunkpc' = "item"
    /\ UNCHANGED <<chunk_size, chunk_overlap, new_results, splitText, start,
                   new_text, iters>>
    /\ UNCHANGED notChunk

\* split_text returns text_chunks for the current item: the chunks are
\* appended and the for loop moves on
SplitReturn(chunks) ==
    /\ new_results' = AppendChunks(new_results, results_dict[itemIdx], chunks)
    /\ itemIdx' = itemIdx + 1
    /\ chunkpc' = "item"
    /\ splitText' = <<>>
    /\ start' = 0
    /\ new_text' = <<>>
    /\ iters' = 0

\* one turn of "for item in results_dict": an image is passed through, a
\* text is handed to split_text, which returns at once when
\* len(text) <= chunk_size and enters the sliding window otherwise
SplitItem ==
    /\ chunkpc = "item"
    /\ itemIdx <= Len(results_dict)
    /\ LET item == results_dict[itemIdx] IN
         IF item.type # "text"
         THEN SplitReturn(<<item.content>>)
         ELSE IF Len(item.content) <= chunk_size
         THEN SplitReturn(KeepIfNotBlank(item.content))
         ELSE /\ splitText' = item.content
              /\ start' = 0
              /\ new_text' = <<>>
              /\ iters' = 0
              /\ chunkpc' = "loop"
              /\ UNCHANGED <<new_results, itemIdx>>
    /\ UNCHANGED <<chunk_size, chunk_overlap, results_dict>>
    /\ UNCHANGED notChunk

\* one iteration of "while start < len(text)" in split_text
SplitWindow ==
    /\ chunkpc = "loop"
    /\ iters < MaxIters
    /\ LET end == start + chunk_size IN
         IF start >= Len(splitText)
         THEN SplitReturn(new_text)
         ELSE IF end >= Len(splitText)
         THEN SplitReturn(new_text \o KeepIfNotBlank(Slice(splitText, start, Len(splitText))))
         ELSE /\ new_text' = new_text \o KeepIfNotBlank(Slice(splitText, start, end))
              /\ start' = NextStart(start, chunk_size, chunk_overlap)
              /\ iters' = iters + 1
              /\ UNCHANGED <<new_results, itemIdx, splitText, chunkpc>>
    /\ UNCHANGED <<chunk_size, chunk_overlap, results_dict>>
    /\ UNCHANGED notChunk

\* split_text_by_json: the new list overwrites the staging file
SplitWrite ==
    /\ chunkpc = "item"
    /\ itemIdx > Len(results_dict)
    /\ chunkpc' = "done"
    /\ UNCHANGED <<chunk_size, chunk_overlap, results_dict, new_results, itemIdx,
                   splitText, start, new_text, iters>>
    /\ UNCHANGED notChunk

ChunkNext == SplitRead \/ SplitItem \/ SplitWindow \/ SplitWrite

(***************************************************************************)
(* Ingestion pipeline: mineru_process and embedding_json_file              *)
(* (mineru_process_legacy.py).  Every await of the coroutines is a step.   *)
(***************************************************************************)
\* the items of the staging file of a run, after chunking
PipeItems(kinds) ==
    [i \in DOMAIN kinds |->
        [index |-> i - 1, content |-> <<kinds[i], i - 1>>, type |-> kinds[i],
         embedding |-> <<"None">>]]

KindLists(n) == UNION {[1..m -> {"text", "image"}] : m \in 0..n}

\* values of config["embedding_settings"]["semaphore"]; set = FALSE is a
\* missing setting
SemSettings ==
    {[set |-> FALSE, v |-> 0]} \cup {[set |-> TRUE, v |-> n] : n \in (0 - 1)..MaxSem}

\* concurrency_limit of embedding_json_file
ConcurrencyLimit(setting) ==
    IF ~setting.set \/ setting.v = 0 \/ setting.v <= 0 THEN 1 ELSE setting.v

\* stop_after_attempt(3) of the retry decorator of embedding_text
MaxAttempts == 3

\* the vector the backend returns for the item with index i of run r
Vector(r, i) == <<"vec", r, i>>

\* the tasks of one gather: st is "wait", "run", "ok" or "fail"
NewTasks(items) == [i \in DOMAIN items |-> [st |-> "wait", attempts |-> 0]]

\* embedding calls that hold a permit of the semaphore of run r
Running(r) == {i \in DOMAIN emb[r] : emb[r][i].st = "run"}

\* a gather that waits for all tasks and ignores the failed ones
GatherDropsFailed(tasks) ==
    IF \A i \in DOMAIN tasks : tasks[i].st \in {"ok", "fail"} THEN "done" ELSE "pending"

\* await asyncio.gather(*tasks): the first exception is raised to the
\* awaiting coroutine, otherwise the results come when all tasks are done
Gather(tasks) ==
    IF \E i \in DOMAIN tasks : tasks[i].st = "fail" THEN "raise"
    ELSE IF \A i \in DOMAIN tasks : tasks[i].st = "ok" THEN "done"
    ELSE "pending"

\* new_results_dict: one entry per result of the gather, in task order
EmbeddedItems(r, items, tasks) ==
    LET done == SelectSeq(items, LAMBDA it : tasks[it.index + 1].st = "ok") IN
    [j \in DOMAIN done |->
        [index |-> done[j].index, content |-> done[j].content,
         type |-> done[j].type, embedding |-> Vector(r, done[j].index)]]

ScratchFiles == {"source", "md", "json", "ocr"}

PipeIdle ==
    /\ runs = {}
    /\ semaphore = [set |-> FALSE, v |-> 0]
    /\ mode = <<>>
    /\ ppc = <<>>
    /\ staged = <<>>
    /\ results_in = <<>>
    /\ emb = <<>>
    /\ client = <<>>
    /\ saves = <<>>
    /\ rows = <<>>
    /\ docrow = <<>>
    /\ files = <<>>
    /\ conn = <<>>
    /\ ret = <<>>
    /\ result = <<>>

\* rs: the runs; n: the largest staging file; modes: the mode arguments
PipeInit(rs, n, modes) ==
    /\ runs = rs
    /\ semaphore \in SemSettings
    /\ mode \in [rs -> modes]
    /\ ppc = [r \in rs |-> "download"]
    /\ staged \in [rs -> {PipeItems(k) : k \in KindLists(n)}]
    /\ results_in = [r \in rs |-> <<>>]
    /\ emb = [r \in rs |-> <<>>]
    /\ client = [r \in rs |-> "none"]
    /\ saves = [r \in rs |-> <<>>]
    /\ rows = [r \in rs |-> {}]
    /\ docrow = [r \in rs |-> "absent"]
    /\ files = [r \in rs |-> {}]
    /\ conn = [r \in rs |-> FALSE]
    /\ ret = [r \in rs |-> "none"]
    /\ result = [r \in rs |-> "none"]

\* an exception leaves mineru_process outside its try block
Raise(r) ==
    /\ ppc' = [ppc EXCEPT ![r] = "end"]
    /\ result' = [result EXCEPT ![r] = "raised"]

\* await download_file(file_url, file_path)
Download(r, ok) ==
    /\ ppc[r] = "download"
    /\ IF ok
       THEN /\ files' = [files EXCEPT ![r] = @ \cup {"source"}]
            /\ ppc' = [ppc EXCEPT ![r] = "extract"]
            /\ UNCHANGED result
       ELSE Raise(r) /\ UNCHANGED files
    /\ UNCHANGED <<runs, semaphore, mode, results_in, staged, emb, client, saves, rows,
                   docrow, conn, ret>>
    /\ UNCHANGED notPipe

\* the text is read: plumber_read_pdf in simple mode; in normal mode
\* request_mineru returns None and the download of None fails; any other
\* mode is a ValueError
ExtractText(r, ok) ==
    /\ ppc[r] = "extract"
    /\ IF mode[r] = "simple" /\ ok
       THEN ppc' = [ppc EXCEPT ![r] = "segment"] /\ UNCHANGED result
       ELSE Raise(r)
    /\ UNCHANGED <<runs, semaphore, mode, results_in, staged, emb, client, saves, rows,
                   docrow, files, conn, ret>>
    /\ UNCHANGED notPipe

\* await asyncio.to_thread(find_all_text_and_image_index, ...)
Segment(r) ==
    /\ ppc[r] = "segment"
    /\ ppc' = [ppc EXCEPT ![r] = "describe"]
    /\ UNCHANGED <<runs, semaphore, mode, results_in, staged, emb, client, saves, rows,
                   docrow, files, conn, ret, result>>
    /\ UNCHANGED notPipe

\* await save_results_to_json(...): the staging file is written, the images
\* are described, the staging file is written again
SaveResultsToJson(r, ok) ==
    /\ ppc[r] = "describe"
    /\ files' = [files EXCEPT ![r] = @ \cup {"json"}]
    /\ IF ok
       THEN ppc' = [ppc EXCEPT ![r] = "split"] /\ UNCHANGED result
       ELSE Raise(r)
    /\ UNCHANGED <<runs, semaphore, mode, results_in, staged, emb, client, saves, rows,
                   docrow, conn, ret>>
    /\ UNCHANGED notPipe

\* await split_text_by_json(json_file_path)
SplitTextByJson(r) ==
    /\ ppc[r] = "split"
    /\ ppc' = [ppc EXCEPT ![r] = "embed"]
    /\ UNCHANGED <<runs, semaphore, mode, results_in, staged, emb, client, saves, rows,
                   docrow, files, conn, ret, result>>
    /\ UNCHANGED notPipe

\* embedding_json_file up to the gather: the staging file is read, the
\* semaphore and the shared client are made, one task per item is started
EmbeddingJsonFile(r) ==
    /\ ppc[r] = "embed"
    /\ results_in' = [results_in EXCEPT ![r] = staged[r]]
    /\ emb' = [emb EXCEPT ![r] = NewTasks(staged[r])]
    /\ client' = [client EXCEPT ![r] = "open"]
    /\ ppc' = [ppc EXCEPT ![r] = "embed_gather"]
    /\ UNCHANGED <<runs, semaphore, mode, staged, saves, rows, docrow, files,
                   conn, ret, result>>
    /\ UNCHANGED notPipe

\* _embed: "async with sem" is entered and embedding_text posts the request;
\* a request on a client that is closed already fails at once
EmbedAcquire(r, i) ==
    /\ i \in DOMAIN emb[r]
    /\ emb[r][i].st = "wait"
    /\ Cardinality(Running(r)) < ConcurrencyLimit(semaphore)
    /\ emb' = [emb EXCEPT ![r][i].st = IF client[r] = "open" THEN "run" ELSE "fail"]
    /\ UNCHANGED <<runs, semaphore, mode, results_in, ppc, staged, client, saves, rows,
                   docrow, files, conn, ret, result>>
    /\ UNCHANGED notPipe

\* embedding_text returns index, embedding, text and type
EmbedOk(r, i) ==
    /\ i \in DOMAIN emb[r]
    /\ emb[r][i].st = "run"
    /\ client[r] = "open"
    /\ emb' = [emb EXCEPT ![r][i].st = "ok", ![r][i].attempts = @ + 1]
    /\ UNCHANGED <<runs, semaphore, mode, results_in, ppc, staged, client, saves, rows,
                   docrow, files, conn, ret, result>>
    /\ UNCHANGED notPipe

\* an attempt of embedding_text fails with an error the decorator retries:
\* the next attempt follows, the third failure is final
EmbedRetryable(r, i) ==
    /\ i \in DOMAIN emb[r]
    /\ emb[r][i].st = "run"
    /\ emb' = [emb EXCEPT ![r][i].attempts = @ + 1,
                          ![r][i].st = IF emb[r][i].attempts + 1 >= MaxAttempts
                                       THEN "fail" ELSE "run"]
    /\ UNCHANGED <<runs, semaphore, mode, results_in, ppc, staged, client, saves, rows,
                   docrow, files, conn, ret, result>>
    /\ UNCHANGED notPipe

\* an attempt of embedding_text fails with an error that is not retried
EmbedFatal(r, i) ==
    /\ i \in DOMAIN emb[r]
    /\ emb[r][i].st = "run"
    /\ emb' = [emb EXCEPT ![r][i].st = "fail", ![r][i].attempts = @ + 1]
    /\ UNCHANGED <<runs, semaphore, mode, results_in, ppc, staged, client, saves, rows,
                   docrow, files, conn, ret, result>>
    /\ UNCHANGED notPipe

\* embedding_json_file after the gather: the client is closed; the results
\* are written to the staging file, or the exception of a task is raised
EmbedGather(r) ==
    /\ ppc[r] = "embed_gather"
    /\ Gather(emb[r]) # "pending"
    /\ client' = [client EXCEPT ![r] = "closed"]
    /\ IF Gather(emb[r]) = "done"
       THEN /\ staged' = [staged EXCEPT ![r] = EmbeddedItems(r, results_in[r], emb[r])]
            /\ ppc' = [ppc EXCEPT ![r] = "persist"]
            /\ UNCHANGED result
       ELSE Raise(r) /\ UNCHANGED staged
    /\ UNCHANGED <<runs, semaphore, mode, results_in, emb, saves, rows, docrow, files,
                   conn, ret>>
    /\ UNCHANGED notPipe

\* mineru_process: the staging file is read and one save_something_to_vcdb
\* task per item is started
Persist(r) ==
    /\ ppc[r] = "persist"
    /\ saves' = [saves EXCEPT ![r] = NewTasks(staged[r])]
    /\ ppc' = [ppc EXCEPT ![r] = "persist_gather"]
    /\ UNCHANGED <<runs, semaphore, mode, results_in, staged, emb, client, rows, docrow,
                   files, conn, ret, result>>
    /\ UNCHANGED notPipe

\* save_something_to_vcdb for one item: the transaction commits (the document
\* row is created when absent, the chunk or photo row is written) or fails
SaveSomething(r, i, ok) ==
    /\ i \in DOMAIN saves[r]
    /\ saves[r][i].st = "wait"
    /\ saves' = [saves EXCEPT ![r][i].st = IF ok THEN "ok" ELSE "fail"]
    /\ IF ok
       THEN /\ rows' = [rows EXCEPT ![r] = @ \cup {i - 1}]
            /\ docrow' = [docrow EXCEPT ![r] = IF @ = "absent" THEN "created" ELSE @]
       ELSE UNCHANGED <<rows, docrow>>
    /\ UNCHANGED <<runs, semaphore, mode, results_in, ppc, staged, emb, client, files,
                   conn, ret, result>>
    /\ UNCHANGED notPipe

\* await asyncio.gather(*tasks) of the save tasks, then the markdown file is
\* written
PersistGather(r) ==
    /\ ppc[r] = "persist_gather"
    /\ Gather(saves[r]) # "pending"
    /\ IF Gather(saves[r]) = "done"
       THEN /\ files' = [files EXCEPT ![r] = @ \cup {"md"}]
            /\ ppc' = [ppc EXCEPT ![r] = "upload_md"]
            /\ UNCHANGED result
       ELSE Raise(r) /\ UNCHANGED files
    /\ UNCHANGED <<runs, semaphore, mode, results_in, staged, emb, client, saves, rows,
                   docrow, conn, ret>>
    /\ UNCHANGED notPipe

\* the except branch of the try block: return None, after the finally block
ReturnNone(r) ==
    /\ ret' = [ret EXCEPT ![r] = "None"]
    /\ ppc' = [ppc EXCEPT ![r] = "finally"]

\* fput_object of the markdown file
UploadMd(r, ok) ==
    /\ ppc[r] = "upload_md"
    /\ IF ok
       THEN ppc' = [ppc EXCEPT ![r] = "upload_pdf"] /\ UNCHANGED ret
       ELSE ReturnNone(r)
    /\ UNCHANGED <<runs, semaphore, mode, results_in, staged, emb, client, saves, rows,
                   docrow, files, conn, result>>
    /\ UNCHANGED notPipe

\* fput_object of the source file
UploadPdf(r, ok) ==
    /\ ppc[r] = "upload_pdf"
    /\ IF ok
       THEN ppc' = [ppc EXCEPT ![r] = "connect"] /\ UNCHANGED ret
       ELSE ReturnNone(r)
    /\ UNCHANGED <<runs, semaphore, mode, results_in, staged, emb, client, saves, rows,
                   docrow, files, conn, result>>
    /\ UNCHANGED notPipe

\* conn = await asyncpg.connect(...)
Connect(r, ok) ==
    /\ ppc[r] = "connect"
    /\ IF ok
       THEN /\ conn' = [conn EXCEPT ![r] = TRUE]
            /\ ppc' = [ppc EXCEPT ![r] = "update"]
            /\ UNCHANGED ret
       ELSE ReturnNone(r) /\ UNCHANGED conn
    /\ UNCHANGED <<runs, semaphore, mode, results_in, staged, emb, client, saves, rows,
                   docrow, files, result>>
    /\ UNCHANGED notPipe

\* UPDATE chunk_schema.documents SET markdown_public_url, raw_file_public_url
\* ... WHERE id = file_uuid, in a transaction; then the payload is returned
UpdateDocument(r, ok) ==
    /\ ppc[r] = "update"
    /\ IF ok
       THEN /\ docrow' = [docrow EXCEPT ![r] = IF @ = "absent" THEN "absent" ELSE "urls"]
            /\ ret' = [ret EXCEPT ![r] = "payload"]
            /\ ppc' = [ppc EXCEPT ![r] = "finally"]
       ELSE ReturnNone(r) /\ UNCHANGED docrow
    /\ UNCHANGED <<runs, semaphore, mode, results_in, staged, emb, client, saves, rows,
                   files, conn, result>>
    /\ UNCHANGED notPipe

\* the finally block: the scratch files are unlinked, then conn.close() is
\* awaited, which raises when conn was never assigned
Finally(r) ==
    /\ ppc[r] = "finally"
    /\ files' = [files EXCEPT ![r] = @ \ ScratchFiles]
    /\ result' = [result EXCEPT ![r] = IF conn[r] THEN ret[r] ELSE "raised"]
    /\ ppc' = [ppc EXCEPT ![r] = "end"]
    /\ UNCHANGED <<runs, semaphore, mode, results_in, staged, emb, client, saves, rows,
                   docrow, conn, ret>>
    /\ UNCHANGED notPipe

PipeNext ==
    \E r \in runs :
        \/ \E ok \in BOOLEAN : Download(r, ok)
        \/ \E ok \in BOOLEAN : ExtractText(r, ok)
        \/ Segment(r)
        \/ \E ok \in BOOLEAN : SaveResultsToJson(r, ok)
        \/ SplitTextByJson(r)
        \/ EmbeddingJsonFile(r)
        \/ \E i \in 1..MaxStaged : EmbedAcquire(r, i)
        \/ \E i \in 1..MaxStaged : EmbedOk(r, i)
        \/ \E i \in 1..MaxStaged : EmbedRetryable(r, i)
        \/ \E i \in 1..MaxStaged : EmbedFatal(r, i)
        \/ EmbedGather(r)
        \/ Persist(r)
        \/ \E i \in 1..MaxStaged, ok \in BOOLEAN : SaveSomething(r, i, ok)
        \/ PersistGather(r)
        \/ \E ok \in BOOLEAN : UploadMd(r, ok)
        \/ \E ok \in BOOLEAN : UploadPdf(r, ok)
        \/ \E ok \in BOOLEAN : Connect(r, ok)
        \/ \E ok \in BOOLEAN : UpdateDocument(r, ok)
        \/ Finally(r)

(***************************************************************************)
(* Persistence writer: save_text_to_vcdb_text_table and                    *)
(* save_photo_to_vcdb_photo_table (mineru_process_legacy.py).  Each call   *)
(* runs one transaction on its own connection; every SQL statement is a    *)
(* step.  The store is PostgreSQL at READ COMMITTED: a statement sees the  *)
(* committed rows and the rows of its own transaction, and an INSERT       *)
(* waits for a transaction that holds an uncommitted row with the same key.*)
(***************************************************************************)
Users == {"u1", "u2"}
Kbs == {"k1", "k2"}
Docs == {"d1"}

\* a table with primary key "id": no two rows share the first component
KeyedOnId(table) == \A x, y \in table : x[1] = y[1] => x = y

\* the stores a call may find: every knowledge base is owned by a user of
\* the store and every document lies in a knowledge base of the store
Stores ==
    {st \in [users : SUBSET Users, kbs : SUBSET (Kbs \X Users), docs : SUBSET (Docs \X Kbs)] :
        /\ KeyedOnId(st.kbs) /\ KeyedOnId(st.docs)
        /\ \A kb \in st.kbs : kb[2] \in st.users
        /\ \A dc \in st.docs : \E kb \in st.kbs : kb[1] = dc[2]}

\* the calls alternate between save_text_to_vcdb_text_table and
\* save_photo_to_vcdb_photo_table, whose statements on users, knowledge_bases
\* and documents are the same
SaveKind(w) == IF w % 2 = 1 THEN "text" ELSE "image"

\* the arguments of the calls: users and knowledge bases are interchangeable,
\* so the first call names u1 and k1 and the others name any pair
SaveArgs(w) == IF w = 1 THEN {<<"u1", "k1">>} ELSE Users \X Kbs

NoRows == [users |-> {}, kbs |-> {}, docs |-> {}, rows |-> {}]

\* the rows a statement of writer w sees
VisibleUsers(w) == users \cup pend[w].users
VisibleKbs(w) == kbs \cup pend[w].kbs
VisibleDocs(w) == docs \cup pend[w].docs

\* ids of the uncommitted rows of the other transactions
HeldUsers(w) == UNION {pend[x].users : x \in writers \ {w}}
HeldKbs(w) == {kb[1] : kb \in UNION {pend[x].kbs : x \in writers \ {w}}}
HeldDocs(w) == {dc[1] : dc \in UNION {pend[x].docs : x \in writers \ {w}}}

\* a plain INSERT: a row with the same id is a unique violation
InsertPlain(exists, held) ==
    IF held THEN "wait" ELSE IF exists THEN "UniqueViolation" ELSE "insert"

\* INSERT ... ON CONFLICT (id) DO NOTHING: waits while another transaction
\* holds the id, does nothing when a row with the id exists
InsertOnConflictDoNothing(exists, held) ==
    IF held THEN "wait" ELSE IF exists THEN "nothing" ELSE "insert"

DbIdle ==
    /\ writers = {}
    /\ users = {}
    /\ kbs = {}
    /\ docs = {}
    /\ rowtbl = {}
    /\ wpc = <<>>
    /\ warg = <<>>
    /\ pend = <<>>
    /\ wres = <<>>
    /\ skips = <<>>
    /\ mismatch = <<>>

DbInit(ws) ==
    /\ writers = ws
    /\ \E st \in Stores : users = st.users /\ kbs = st.kbs /\ docs = st.docs
    /\ rowtbl = {}
    /\ wpc = [w \in ws |-> "idle"]
    /\ warg = [w \in ws |-> [user |-> "u1", kb |-> "k1", doc |-> "d1", kind |-> SaveKind(w)]]
    /\ pend = [w \in ws |-> NoRows]
    /\ wres = [w \in ws |-> "none"]
    /\ skips = [w \in ws |-> {}]
    /\ mismatch = [w \in ws |-> FALSE]

\* an exception leaves "async with conn.transaction()": the transaction is
\* rolled back, the connection is closed and the except clauses map the error
Rollback(w, error) ==
    /\ pend' = [pend EXCEPT ![w] = NoRows]
    /\ wpc' = [wpc EXCEPT ![w] = "done"]
    /\ wres' = [wres EXCEPT ![w] = error]
    /\ UNCHANGED skips

\* the except clauses of the call: the error the caller sees
Raised(error) ==
    IF error \in {"UniqueViolation", "ForeignKeyViolation"} THEN "ValueError" ELSE "Exception"

\* the call passes its argument checks, connects and opens the transaction
SaveBegin(w, u, k, d, kind) ==
    /\ wpc[w] = "idle"
    /\ warg' = [warg EXCEPT ![w] = [user |-> u, kb |-> k, doc |-> d, kind |-> kind]]
    /\ wpc' = [wpc EXCEPT ![w] = "user_check"]
    /\ UNCHANGED <<writers, users, kbs, docs, rowtbl, pend, wres, skips, mismatch>>
    /\ UNCHANGED notDb

\* SELECT id FROM users WHERE id = $1
UserCheck(w) ==
    /\ wpc[w] = "user_check"
    /\ wpc' = [wpc EXCEPT ![w] =
                 IF warg[w].user \in VisibleUsers(w) THEN "kb_check" ELSE "user_insert"]
    /\ UNCHANGED <<writers, users, kbs, docs, rowtbl, warg, pend, wres, skips, mismatch>>
    /\ UNCHANGED notDb

\* INSERT INTO users ... ON CONFLICT (id) DO NOTHING
UserInsert(w) ==
    /\ wpc[w] = "user_insert"
    /\ LET u == warg[w].user
           outcome == InsertOnConflictDoNothing(u \in VisibleUsers(w), u \in HeldUsers(w)) IN
         /\ outcome # "wait"
         /\ IF outcome = "UniqueViolation"
            THEN Rollback(w, "UniqueViolation")
            ELSE /\ pend' = [pend EXCEPT ![w].users =
                               IF outcome = "insert" THEN @ \cup {u} ELSE @]
                 /\ skips' = [skips EXCEPT ![w] =
                                IF outcome = "nothing" THEN @ \cup {"users"} ELSE @]
                 /\ wpc' = [wpc EXCEPT ![w] = "kb_check"]
                 /\ UNCHANGED wres
    /\ UNCHANGED <<writers, users, kbs, docs, rowtbl, warg, mismatch>>
    /\ UNCHANGED notDb

\* SELECT id FROM knowledge_bases WHERE id = $1 AND user_id = $2
KbCheck(w) ==
    /\ wpc[w] = "kb_check"
    /\ LET k == warg[w].kb
           found == <<k, warg[w].user>> \in VisibleKbs(w) IN
         /\ wpc' = [wpc EXCEPT ![w] = IF found THEN "doc_check" ELSE "kb_insert"]
         /\ mismatch' = [mismatch EXCEPT ![w] =
                           @ \/ (~found /\ \E kb \in VisibleKbs(w) : kb[1] = k)]
    /\ UNCHANGED <<writers, users, kbs, docs, rowtbl, warg, pend, wres, skips>>
    /\ UNCHANGED notDb

\* INSERT INTO knowledge_bases (id, user_id, ...) ... ON CONFLICT (id) DO NOTHING
KbInsert(w) ==
    /\ wpc[w] = "kb_insert"
    /\ LET k == warg[w].kb
           outcome == InsertOnConflictDoNothing(\E kb \in VisibleKbs(w) : kb[1] = k,
                                                k \in HeldKbs(w)) IN
         /\ outcome # "wait"
         /\ IF outcome = "UniqueViolation"
            THEN Rollback(w, "UniqueViolation")
            ELSE IF outcome = "insert" /\ warg[w].user \notin VisibleUsers(w)
            THEN Rollback(w, "ForeignKeyViolation")
            ELSE /\ pend' = [pend EXCEPT ![w].kbs =
                               IF outcome = "insert" THEN @ \cup {<<k, warg[w].user>>} ELSE @]
                 /\ skips' = [skips EXCEPT ![w] =
                                IF outcome = "nothing" THEN @ \cup {"knowledge_bases"} ELSE @]
                 /\ wpc' = [wpc EXCEPT ![w] = "doc_check"]
                 /\ UNCHANGED wres
    /\ UNCHANGED <<writers, users, kbs, docs, rowtbl, warg, mismatch>>
    /\ UNCHANGED notDb

\* SELECT ... FROM documents d JOIN knowledge_bases kb ON d.knowledge_base_id
\* = kb.id WHERE d.id = $1 AND d.knowledge_base_id = $2 AND kb.user_id = $3
DocCheck(w) ==
    /\ wpc[w] = "doc_check"
    /\ LET d == warg[w].doc
           k == warg[w].kb
           found == /\ <<d, k>> \in VisibleDocs(w)
                    /\ <<k, warg[w].user>> \in VisibleKbs(w) IN
         /\ wpc' = [wpc EXCEPT ![w] = IF found THEN "row_insert" ELSE "doc_insert"]
         /\ mismatch' = [mismatch EXCEPT ![w] =
                           @ \/ (\E dc \in VisibleDocs(w) : dc[1] = d /\ dc[2] # k)]
    /\ UNCHANGED <<writers, users, kbs, docs, rowtbl, warg, pend, wres, skips>>
    /\ UNCHANGED notDb

\* INSERT INTO documents (id, knowledge_base_id, ...) ... ON CONFLICT (id) DO NOTHING
DocInsert(w) ==
    /\ wpc[w] = "doc_insert"
    /\ LET d == warg[w].doc
           k == warg[w].kb
           outcome == InsertOnConflictDoNothing(\E dc \in VisibleDocs(w) : dc[1] = d,
                                                d \in HeldDocs(w)) IN
         /\ outcome # "wait"
         /\ IF outcome = "UniqueViolation"
            THEN Rollback(w, "UniqueViolation")
            ELSE IF outcome = "insert" /\ ~(\E kb \in VisibleKbs(w) : kb[1] = k)
            THEN Rollback(w, "ForeignKeyViolation")
            ELSE /\ pend' = [pend EXCEPT ![w].docs =
                               IF outcome = "insert" THEN @ \cup {<<d, k>>} ELSE @]
                 /\ skips' = [skips EXCEPT ![w] =
                                IF outcome = "nothing" THEN @ \cup {"documents"} ELSE @]
                 /\ wpc' = [wpc EXCEPT ![w] = "row_insert"]
                 /\ UNCHANGED wres
    /\ UNCHANGED <<writers, users, kbs, docs, rowtbl, warg, mismatch>>
    /\ UNCHANGED notDb

\* INSERT INTO chunks / photos (id, document_id, ...): ok = FALSE is a
\* failure of the store (a constraint of the row, the connection)
RowInsert(w, ok) ==
    /\ wpc[w] = "row_insert"
    /\ IF ~(\E dc \in VisibleDocs(w) : dc[1] = warg[w].doc)
       THEN Rollback(w, "ForeignKeyViolation")
       ELSE IF ~ok
       THEN Rollback(w, "Exception")
       ELSE /\ pend' = [pend EXCEPT ![w].rows =
                          @ \cup {[writer |-> w, doc |-> warg[w].doc, kind |-> warg[w].kind]}]
            /\ wpc' = [wpc EXCEPT ![w] = "commit"]
            /\ UNCHANGED <<wres, skips>>
    /\ UNCHANGED <<writers, users, kbs, docs, rowtbl, warg, mismatch>>
    /\ UNCHANGED notDb

\* the transaction block is left: COMMIT, the connection is closed and the
\* id of the row is returned
Commit(w) ==
    /\ wpc[w] = "commit"
    /\ users' = users \cup pend[w].users
    /\ kbs' = kbs \cup pend[w].kbs
    /\ docs' = docs \cup pend[w].docs
    /\ rowtbl' = rowtbl \cup pend[w].rows
    /\ pend' = [pend EXCEPT ![w] = NoRows]
    /\ wres' = [wres EXCEPT ![w] = "ok"]
    /\ wpc' = [wpc EXCEPT ![w] = "done"]
    /\ UNCHANGED <<writers, warg, skips, mismatch>>
    /\ UNCHANGED notDb

DbNext ==
    \E w \in writers :
        \/ \E a \in SaveArgs(w), d \in Docs : SaveBegin(w, a[1], a[2], d, SaveKind(w))
        \/ UserCheck(w)
        \/ UserInsert(w)
        \/ KbCheck(w)
        \/ KbInsert(w)
        \/ DocCheck(w)
        \/ DocInsert(w)
        \/ \E ok \in BOOLEAN : RowInsert(w, ok)
        \/ Commit(w)


(***************************************************************************)
(* Backend calls under the retry decorator: describe_photo and             *)
(* embedding_text (mineru_process_legacy.py).  One call is followed over   *)
(* its attempts; the backend answers each attempt with a status or the     *)
(* request fails in transport.                                             *)
(***************************************************************************)
RetriedFunctions == {"describe_photo", "embedding_text"}

\* what an attempt meets: a response with an HTTP status, a 200 response
\* whose body lacks the expected field, or a request that fails in transport
\* with a connection error or a protocol error (status 0: no response)
Statuses == {200, 400, 404, 429, 500, 503}
Faults == {"ConnectError", "RemoteProtocolError"}
AttemptOutcomes ==
    {[status |-> st, fault |-> "none"] : st \in Statuses}
        \cup {[status |-> 200, fault |-> "bad_body"]}
        \cup {[status |-> 0, fault |-> f] : f \in Faults}

\* response.raise_for_status(): every 4xx and 5xx status is an HTTPStatusError
RaiseForStatus(status) == IF status >= 400 THEN "HTTPStatusError" ELSE "none"

\* the exception an attempt ends with, "none" when it returns
AttemptException(o) ==
    IF o.fault \in Faults THEN o.fault
    ELSE IF RaiseForStatus(o.status) # "none" THEN RaiseForStatus(o.status)
    ELSE IF o.fault = "bad_body" THEN "KeyError"
    ELSE "none"

\* httpx: ConnectError and RemoteProtocolError are TransportErrors, which are
\* RequestErrors; ProtocolError is the base of RemoteProtocolError
IsInstance(exc, class) ==
    \/ exc = class
    \/ exc = "ConnectError" /\ class = "RequestError"
    \/ exc = "RemoteProtocolError" /\ class \in {"ProtocolError", "RequestError"}

\* retry=retry_if_exception_type((httpx.RequestError, httpx.HTTPStatusError,
\* httpx.ProtocolError)): the class of the exception decides, not the status
RetryIfExceptionType(o) ==
    \E class \in {"RequestError", "HTTPStatusError", "ProtocolError"} :
        IsInstance(AttemptException(o), class)

RetryIdle ==
    /\ rfn = "none"
    /\ rlog = <<>>
    /\ rpc = "idle"
    /\ rres = "none"

RetryInit ==
    /\ rfn \in RetriedFunctions
    /\ rlog = <<>>
    /\ rpc = "attempt"
    /\ rres = "none"

\* one attempt of the decorated function: it returns, or it raises and the
\* decorator retries, gives up after stop_after_attempt(3) with a RetryError,
\* or lets an exception that is not of a retried class through
Attempt(o) ==
    /\ rpc = "attempt"
    /\ rlog' = Append(rlog, o)
    /\ IF AttemptException(o) = "none"
       THEN rpc' = "done" /\ rres' = "ok"
       ELSE IF ~RetryIfExceptionType(o)
       THEN rpc' = "done" /\ rres' = AttemptException(o)
       ELSE IF Len(rlog) + 1 >= MaxAttempts
       THEN rpc' = "done" /\ rres' = "RetryError"
       ELSE rpc' = "attempt" /\ rres' = rres
    /\ UNCHANGED rfn
    /\ UNCHANGED notRetry

RetryNext == \E o \in AttemptOutcomes : Attempt(o)


(***************************************************************************)
(* download_file (mineru_process_legacy.py) with its fallback to the       *)
(* internal object-store address (convert_to_internal_minio_url,           *)
(* tools_legacy.py), under its retry decorator.                            *)
(***************************************************************************)
\* a URL is where it points to and a path; "public" is the public address of
\* the object store, "internal" its http://host:port address
Origins == {"public", "internal", "other"}
Urls == [origin : Origins, path : {"/f"}]

\* server_components.minio: public_url_prefix ("" when not configured) and
\* whether host and port are configured
MinioConfigs == [public_url_prefix : {"", "public", "internal"}, hostport : BOOLEAN]

\* url.startswith(public_prefix)
StartsWith(url, prefix) == url.origin = prefix

ConvertToInternalMinioUrl(url, minio_cfg) ==
    IF minio_cfg.public_url_prefix = "" \/ ~StartsWith(url, minio_cfg.public_url_prefix)
    THEN url
    ELSE IF ~minio_cfg.hostport THEN url
    ELSE [origin |-> "internal", path |-> url.path]

\* how _do_request ends: it returns the path, or raises an HTTPStatusError, a
\* RequestError, or an Exception that wraps any other error
RequestOutcomes == {"ok", "HTTPStatusError", "RequestError", "Exception"}

\* retry=retry_if_exception_type((httpx.RequestError, httpx.HTTPStatusError))
DownloadRetries(exc) == exc \in {"RequestError", "HTTPStatusError"}

DownloadIdle ==
    /\ durl = <<>>
    /\ dcfg = <<>>
    /\ dpc = "idle"
    /\ dattempt = 0
    /\ dreqs = <<>>
    /\ dres = <<>>

DownloadInit ==
    /\ durl \in Urls
    /\ dcfg \in MinioConfigs
    /\ dpc = "first"
    /\ dattempt = 1
    /\ dreqs = <<>>
    /\ dres = <<>>

\* the exception of request number n leaves download_file: the decorator
\* starts the next attempt, gives up with a RetryError, or lets it through
DownloadRaise(n, exc) ==
    IF ~DownloadRetries(exc)
    THEN /\ dpc' = "done"
         /\ dres' = [kind |-> exc, request |-> n]
         /\ UNCHANGED dattempt
    ELSE IF dattempt >= MaxAttempts
    THEN /\ dpc' = "done"
         /\ dres' = [kind |-> "RetryError", request |-> n]
         /\ UNCHANGED dattempt
    ELSE /\ dpc' = "first"
         /\ dattempt' = dattempt + 1
         /\ UNCHANGED dres

\* return await _do_request(file_url); on an exception the URL is converted
\* and, when the converted URL differs, the fallback request follows
FirstRequest(o) ==
    /\ dpc = "first"
    /\ dreqs' = Append(dreqs, [url |-> durl, fallback |-> FALSE, attempt |-> dattempt,
                               outcome |-> o])
    /\ IF o = "ok"
       THEN /\ dpc' = "done"
            /\ dres' = [kind |-> "ok", request |-> Len(dreqs) + 1]
            /\ UNCHANGED dattempt
       ELSE IF ConvertToInternalMinioUrl(durl, dcfg) # durl
       THEN /\ dpc' = "fallback"
            /\ UNCHANGED <<dattempt, dres>>
       ELSE DownloadRaise(Len(dreqs) + 1, o)
    /\ UNCHANGED <<durl, dcfg>>
    /\ UNCHANGED notDownload

\* return await _do_request(internal_url); on an exception:
\* raise second_error from first_error
FallbackRequest(o) ==
    /\ dpc = "fallback"
    /\ dreqs' = Append(dreqs, [url |-> ConvertToInternalMinioUrl(durl, dcfg),
                               fallback |-> TRUE, attempt |-> dattempt, outcome |-> o])
    /\ IF o = "ok"
       THEN /\ dpc' = "done"
            /\ dres' = [kind |-> "ok", request |-> Len(dreqs) + 1]
            /\ UNCHANGED dattempt
       ELSE DownloadRaise(Len(dreqs) + 1, o)
    /\ UNCHANGED <<durl, dcfg>>
    /\ UNCHANGED notDownload

DownloadNext ==
    \E o \in RequestOutcomes :
        \/ FirstRequest(o)
        \/ FallbackRequest(o)


(***************************************************************************)
(* Tag extraction: produce_document_graph, single_document_summary and     *)
(* extract_summary (graph_module_legacy.py).  One call is followed over a  *)
(* knowledge base; the language model answers each request.                *)
(***************************************************************************)
\* the JSON types of the items of an answered array
ItemTypes == {"string", "number"}

\* an answered array of n strings, and one whose last item is a number
StringArray(n) == [i \in 1..n |-> "string"]
ArrayWithNumber(n) == [i \in 1..n |-> IF i = n THEN "number" ELSE "string"]

\* the lengths of the answered arrays: empty, one item, as many items as the
\* prompt asks for at most, and one more
AnswerLengths == {0, 1, TagsAtMost, TagsAtMost + 1}

\* what a request of extract_summary meets: a timeout or another transport
\* error, a status other than 200, a 200 answer without a ```json block, with
\* a block that is not JSON, with JSON that is not an array, or with an array
LlmFaults == {"timeout", "status", "no_json", "invalid_json", "not_array"}
LlmAnswers ==
    {[fault |-> f, items |-> <<>>] : f \in LlmFaults}
        \cup {[fault |-> "none", items |-> StringArray(n)] : n \in AnswerLengths}
        \cup {[fault |-> "none", items |-> ArrayWithNumber(n)] : n \in AnswerLengths \ {0}}

\* tags_schema: {"type": "array", "items": {"type": "string"}}
TagsSchema == [type |-> "array", items |-> "string"]

\* tags_validate: validate(instance=tags, schema=tags_schema)
TagsValidate(answer) ==
    /\ (TagsSchema.type = "array" => answer.fault # "not_array")
    /\ \A i \in 1..Len(answer.items) : answer.items[i] = TagsSchema.items

\* retry=retry_if_exception_type((httpx.HTTPStatusError, httpx.TimeoutException,
\* httpx.RequestError)): of the failures of a request only the transport
\* errors are of these classes, the others are raised as ValueError
SummaryRetries(answer) == answer.fault = "timeout"

\* extract_summary for one request that is not retried: the tags, or "raise"
ExtractSummary(answer) ==
    IF answer.fault \in {"timeout", "status", "no_json", "invalid_json"} THEN "raise"
    ELSE IF TagsValidate(answer) THEN "tags"
    ELSE "raise"

\* a single_document_summary that lets the exception of extract_summary out
SummaryPropagates(outcome) == IF outcome = "raise" THEN "raise" ELSE "tags"

\* single_document_summary: "except Exception" logs and [] is returned
SingleDocumentSummary(outcome) == IF outcome = "raise" THEN "empty" ELSE "tags"

NoTags == [set |-> FALSE, v |-> <<>>]

\* the documents rows of the knowledge base: the text is empty or not, the
\* tags column is NULL or holds an earlier list
DocumentRows == [text : {"", "x"}, tags : {NoTags, [set |-> TRUE, v |-> <<"string">>]}]

GraphIdle ==
    /\ gdocs = <<>>
    /\ gfound = <<>>
    /\ gpc = "idle"
    /\ gtasks = <<>>
    /\ gtags = <<>>
    /\ gnext = 0
    /\ gstore = "idle"
    /\ gret = <<>>

GraphInit ==
    /\ \E n \in 0..MaxDocs : gdocs \in [1..n -> DocumentRows]
    /\ gfound \in [user : BOOLEAN, kb : BOOLEAN]
    /\ gpc = "validate"
    /\ gtasks = <<>>
    /\ gtags = [d \in DOMAIN gdocs |-> gdocs[d].tags]
    /\ gnext = 0
    /\ gstore = "ok"
    /\ gret = <<>>

\* the except clause of produce_document_graph: the transaction is rolled
\* back and {"status": "error", "message": str(e)} is returned
GraphError(message) ==
    /\ gtags' = [d \in DOMAIN gdocs |-> gdocs[d].tags]
    /\ gret' = [status |-> "error", message |-> message]
    /\ gpc' = "done"

\* connect, the user check, the knowledge base check and the document list;
\* then one single_document_summary task per document
Validate(connected) ==
    /\ gpc = "validate"
    /\ IF ~connected
       THEN /\ GraphError("exception")
            /\ gstore' = "failed"
            /\ UNCHANGED gtasks
       ELSE IF ~gfound.user \/ ~gfound.kb \/ Len(gdocs) = 0
       THEN /\ gret' = [status |-> "error",
                        message |-> IF ~gfound.user THEN "User not found"
                                    ELSE IF ~gfound.kb THEN "Knowledge base not found"
                                    ELSE "Document list is empty"]
            /\ gpc' = "done"
            /\ UNCHANGED <<gtasks, gtags, gstore>>
       ELSE /\ gtasks' = [d \in DOMAIN gdocs |-> [st |-> "wait", attempts |-> 0, tags |-> <<>>]]
            /\ gpc' = "gather"
            /\ UNCHANGED <<gtags, gstore, gret>>
    /\ UNCHANGED <<gdocs, gfound, gnext>>
    /\ UNCHANGED notGraph

\* single_document_summary on a document without text returns [] at once
SummaryOfEmptyText(d) ==
    /\ gpc = "gather"
    /\ d \in DOMAIN gtasks
    /\ gtasks[d].st = "wait"
    /\ gdocs[d].text = ""
    /\ gtasks' = [gtasks EXCEPT ![d].st = "done"]
    /\ UNCHANGED <<gdocs, gfound, gpc, gtags, gnext, gstore, gret>>
    /\ UNCHANGED notGraph

\* one request of extract_summary for a document: a transport error is
\* retried up to stop_after_attempt(3); otherwise the task ends with the
\* tags, with [] or with the exception
SummaryAttempt(d, answer) ==
    /\ gpc = "gather"
    /\ d \in DOMAIN gtasks
    /\ gtasks[d].st = "wait"
    /\ gdocs[d].text # ""
    /\ gtasks[d].attempts < MaxAttempts
    /\ IF SummaryRetries(answer) /\ gtasks[d].attempts + 1 < MaxAttempts
       THEN gtasks' = [gtasks EXCEPT ![d].attempts = @ + 1]
       ELSE LET out == SingleDocumentSummary(ExtractSummary(answer)) IN
            gtasks' = [gtasks EXCEPT ![d].attempts = @ + 1,
                                     ![d].st = IF out = "raise" THEN "raised" ELSE "done",
                                     ![d].tags = IF out = "tags" THEN answer.items ELSE <<>>]
    /\ UNCHANGED <<gdocs, gfound, gpc, gtags, gnext, gstore, gret>>
    /\ UNCHANGED notGraph

\* tags_list = await asyncio.gather(*tasks)
SummaryGather ==
    /\ gpc = "gather"
    /\ IF \E d \in DOMAIN gtasks : gtasks[d].st = "raised"
       THEN /\ GraphError("exception")
            /\ UNCHANGED gnext
       ELSE /\ \A d \in DOMAIN gtasks : gtasks[d].st = "done"
            /\ gpc' = "write"
            /\ gnext' = 1
            /\ UNCHANGED <<gtags, gret>>
    /\ UNCHANGED <<gdocs, gfound, gtasks, gstore>>
    /\ UNCHANGED notGraph

\* one round of "for doc, tags in zip(documents, tags_list)": the UPDATE of
\* the tags column when the list is not empty
WriteTags(ok) ==
    /\ gpc = "write"
    /\ gnext <= Len(gdocs)
    /\ IF gtasks[gnext].tags = <<>>
       THEN /\ gnext' = gnext + 1
            /\ UNCHANGED <<gtags, gstore, gret, gpc>>
       ELSE IF ok
       THEN /\ gtags' = [gtags EXCEPT ![gnext] = [set |-> TRUE, v |-> gtasks[gnext].tags]]
            /\ gnext' = gnext + 1
            /\ UNCHANGED <<gstore, gret, gpc>>
       ELSE /\ GraphError("exception")
            /\ gstore' = "failed"
            /\ UNCHANGED gnext
    /\ UNCHANGED <<gdocs, gfound, gtasks>>
    /\ UNCHANGED notGraph

\* the loop is over: the transaction commits and the call returns
GraphReturn(ok) ==
    /\ gpc = "write"
    /\ gnext > Len(gdocs)
    /\ IF ok
       THEN /\ gret' = [status |-> "ok", message |-> "Tags generated successfully"]
            /\ gpc' = "done"
            /\ UNCHANGED <<gtags, gstore>>
       ELSE /\ GraphError("exception")
            /\ gstore' = "failed"
    /\ UNCHANGED <<gdocs, gfound, gtasks, gnext>>
    /\ UNCHANGED notGraph

GraphNext ==
    \/ \E connected \in BOOLEAN : Validate(connected)
    \/ \E d \in DOMAIN gdocs : SummaryOfEmptyText(d)
    \/ \E d \in DOMAIN gdocs, answer \in LlmAnswers : SummaryAttempt(d, answer)
    \/ SummaryGather
    \/ \E ok \in BOOLEAN : WriteTags(ok)
    \/ \E ok \in BOOLEAN : GraphReturn(ok)


(***************************************************************************)
(* FileManager.upload_file (file_server_core/server/file_manager.py) with  *)
(* PostgreSQLManager.check_file_exists and create_document (database.py).  *)
(***************************************************************************)
FileContents == {"a", "b"}
UploadUsers == {"u1", "u2"}

\* _calculate_file_hash: hashlib.sha256(file_data).hexdigest(); different
\* contents of the model have different digests
Sha256(data) == IF data = "a" THEN "ca97" ELSE "3e23"

\* the rows of the documents table a call may find: at most one per user and
\* digest, with the id "old" followed by user and digest
StoredDocuments ==
    {[id |-> <<"old", u, Sha256(c)>>, file_hash |-> Sha256(c), user_id |-> u] :
        u \in UploadUsers, c \in FileContents}

\* SELECT id FROM documents WHERE file_hash = $1 AND user_id = $2
RowsWithHash(table, file_hash, user_id) ==
    {row \in table : row.file_hash = file_hash /\ row.user_id = user_id}

\* _should_ocr(mime_type), by the kind of file that is uploaded
ShouldOcr(mime) == mime \in {"application/pdf", "image/png"}

\* check_file_exists: the id of a row, None when there is none, and also
\* None when the query fails ("except Exception: return None")
CheckFileExists(table, file_hash, user_id, ok) ==
    IF ~ok THEN <<"None">>
    ELSE IF RowsWithHash(table, file_hash, user_id) = {} THEN <<"None">>
    ELSE (CHOOSE row \in RowsWithHash(table, file_hash, user_id) : TRUE).id

UploadIdle ==
    /\ udocs = {}
    /\ uarg = <<>>
    /\ upc = "idle"
    /\ uhad = FALSE
    /\ uuploads = 0
    /\ uobjects = {}
    /\ uocr = {}
    /\ uret = <<>>

UploadInit ==
    /\ udocs \in SUBSET StoredDocuments
    /\ uarg \in [file_data : FileContents, user_id : UploadUsers, enable_ocr : BOOLEAN,
                 mime : {"application/pdf", "text/plain"}]
    /\ upc = "check"
    /\ uhad = (RowsWithHash(udocs, Sha256(uarg.file_data), uarg.user_id) # {})
    /\ uuploads = 0
    /\ uobjects = {}
    /\ uocr = {}
    /\ uret = <<>>

\* the except clause of upload_file
UploadFailed ==
    /\ uret' = [success |-> FALSE, duplicate |-> FALSE, document_id |-> <<"None">>]
    /\ upc' = "done"

\* the id of the new document: str(uuid.uuid4())
NewDocumentId == <<"new", uarg.user_id, Sha256(uarg.file_data)>>

\* existing_doc_id = await self.db.check_file_exists(file_hash, user_id);
\* with an id the call returns it as a duplicate
CheckExisting(ok) ==
    /\ upc = "check"
    /\ LET existing == CheckFileExists(udocs, Sha256(uarg.file_data), uarg.user_id, ok) IN
         IF existing # <<"None">>
         THEN /\ uret' = [success |-> TRUE, duplicate |-> TRUE, document_id |-> existing]
              /\ upc' = "done"
         ELSE /\ upc' = "upload"
              /\ UNCHANGED uret
    /\ UNCHANGED <<udocs, uarg, uhad, uuploads, uobjects, uocr>>
    /\ UNCHANGED notUpload

\* storage_result = await self.storage.upload_file(...)
StorageUpload(ok) ==
    /\ upc = "upload"
    /\ IF ok
       THEN /\ uuploads' = uuploads + 1
            /\ uobjects' = uobjects \cup {NewDocumentId}
            /\ upc' = "create"
            /\ UNCHANGED uret
       ELSE /\ UploadFailed
            /\ UNCHANGED <<uuploads, uobjects>>
    /\ UNCHANGED <<udocs, uarg, uhad, uocr>>
    /\ UNCHANGED notUpload

\* success = await self.db.create_document(document); without success the
\* uploaded object is deleted and the call fails.  With success the OCR task
\* is started when enabled and the result is returned.
CreateDocument(ok) ==
    /\ upc = "create"
    /\ IF ok
       THEN /\ udocs' = udocs \cup {[id |-> NewDocumentId,
                                     file_hash |-> Sha256(uarg.file_data),
                                     user_id |-> uarg.user_id]}
            /\ uocr' = IF uarg.enable_ocr /\ ShouldOcr(uarg.mime)
                       THEN uocr \cup {NewDocumentId} ELSE uocr
            /\ uret' = [success |-> TRUE, duplicate |-> FALSE, document_id |-> NewDocumentId]
            /\ upc' = "done"
            /\ UNCHANGED uobjects
       ELSE /\ uobjects' = uobjects \ {NewDocumentId}
            /\ UploadFailed
            /\ UNCHANGED <<udocs, uocr>>
    /\ UNCHANGED <<uarg, uhad, uuploads>>
    /\ UNCHANGED notUpload

UploadNext ==
    \E ok \in BOOLEAN :
        \/ CheckExisting(ok)
        \/ StorageUpload(ok)
        \/ CreateDocument(ok)


(***************************************************************************)
(* delete_file_from_vcdb (delete_file_module_legacy.py).  The chunk_schema *)
(* tables are created outside this source tree: the cascade from documents *)
(* to chunks and photos and the trigger that maintains                     *)
(* knowledge_bases.document_ids follow the specification of the store.     *)
(***************************************************************************)
DelUsers == {"u1", "u2"}
DelKbs == {"k1", "k2"}
DelDocs == {"d1", "d2"}
RowKinds == {"chunk", "photo"}

\* knowledge_bases.document_ids as the trigger of the store maintains it:
\* the ids of the documents of each knowledge base
DocumentIndex(kbtable, doctable) ==
    [k \in {kb[1] : kb \in kbtable} |-> {dc[1] : dc \in {x \in doctable : x[2] = k}}]

\* the stores a call may find: knowledge bases <<id, user_id>>, documents
\* <<id, knowledge_base_id>> in a knowledge base of the store, chunk and
\* photo rows <<kind, document_id>> of documents of the store
DelStores ==
    {st \in [kbs : SUBSET (DelKbs \X DelUsers), docs : SUBSET (DelDocs \X DelKbs),
             rows : SUBSET (RowKinds \X DelDocs)] :
        /\ KeyedOnId(st.kbs) /\ KeyedOnId(st.docs)
        /\ \A dc \in st.docs : \E kb \in st.kbs : kb[1] = dc[2]
        /\ \A row \in st.rows : \E dc \in st.docs : dc[1] = row[2]}

\* a check of the knowledge base that does not look at its owner
KbCheckAnyOwner(kbtable, k, u) == \E kb \in kbtable : kb[1] = k

\* SELECT id FROM chunk_schema.knowledge_bases WHERE id = $1 AND user_id = $2
KbCheckQuery(kbtable, k, u) == <<k, u>> \in kbtable

\* SELECT id FROM chunk_schema.documents WHERE id = $1 AND knowledge_base_id = $2
DocCheckQuery(doctable, d, k) == <<d, k>> \in doctable

\* a DELETE that names the knowledge base only
DeleteWhereKb(doctable, d, k) == {dc \in doctable : dc[2] = k}

\* DELETE FROM chunk_schema.documents WHERE id = $1 AND knowledge_base_id = $2:
\* the rows it removes
DeleteWhere(doctable, d, k) == {dc \in doctable : dc[1] = d /\ dc[2] = k}

\* ON DELETE CASCADE of chunks and photos: the rows that are left
CascadeDelete(rowtable, removed) ==
    {row \in rowtable : ~(\E dc \in removed : dc[1] = row[2])}

\* not user_id or not user_id.strip()
EmptyArgument(x) == x = ""

DeleteIdle ==
    /\ delstore0 = <<>>
    /\ delkbs = {}
    /\ deldocs = {}
    /\ delrows = {}
    /\ delindex = <<>>
    /\ delarg = <<>>
    /\ delpc = "idle"
    /\ delres = "none"

DeleteInit ==
    /\ delstore0 \in DelStores
    /\ delkbs = delstore0.kbs
    /\ deldocs = delstore0.docs
    /\ delrows = delstore0.rows
    /\ delindex = DocumentIndex(delstore0.kbs, delstore0.docs)
    /\ delarg \in [user : DelUsers \cup {""}, kb : DelKbs, doc : DelDocs]
    /\ delpc = "args"
    /\ delres = "none"

\* an exception leaves the transaction: it is rolled back, the connection is
\* closed and the except clauses raise ValueError or Exception
DeleteRaise(error) ==
    /\ delkbs' = delstore0.kbs
    /\ deldocs' = delstore0.docs
    /\ delrows' = delstore0.rows
    /\ delindex' = DocumentIndex(delstore0.kbs, delstore0.docs)
    /\ delres' = error
    /\ delpc' = "done"

\* the argument checks, then asyncpg.connect and the start of the transaction
DeleteBegin(connected) ==
    /\ delpc = "args"
    /\ IF EmptyArgument(delarg.user) \/ EmptyArgument(delarg.doc) \/ EmptyArgument(delarg.kb)
       THEN DeleteRaise("ValueError")
       ELSE IF ~connected
       THEN DeleteRaise("Exception")
       ELSE /\ delpc' = "kb_check"
            /\ UNCHANGED <<delkbs, deldocs, delrows, delindex, delres>>
    /\ UNCHANGED <<delstore0, delarg>>
    /\ UNCHANGED notDelete

\* step 1: the knowledge base belongs to the user
DeleteKbCheck ==
    /\ delpc = "kb_check"
    /\ IF KbCheckQuery(delkbs, delarg.kb, delarg.user)
       THEN /\ delpc' = "doc_check"
            /\ UNCHANGED <<delkbs, deldocs, delrows, delindex, delres>>
       ELSE DeleteRaise("ValueError")
    /\ UNCHANGED <<delstore0, delarg>>
    /\ UNCHANGED notDelete

\* step 2: the document belongs to the knowledge base
DeleteDocCheck ==
    /\ delpc = "doc_check"
    /\ IF DocCheckQuery(deldocs, delarg.doc, delarg.kb)
       THEN /\ delpc' = "delete"
            /\ UNCHANGED <<delkbs, deldocs, delrows, delindex, delres>>
       ELSE DeleteRaise("ValueError")
    /\ UNCHANGED <<delstore0, delarg>>
    /\ UNCHANGED notDelete

\* step 3: the DELETE, with the cascade and the trigger of the store; "DELETE
\* 0" returns False; ok = FALSE is a failure of the store
DeleteDocument(ok) ==
    /\ delpc = "delete"
    /\ LET removed == DeleteWhere(deldocs, delarg.doc, delarg.kb) IN
         IF ~ok
         THEN DeleteRaise("Exception")
         ELSE IF removed = {}
         THEN /\ delres' = "False"
              /\ delpc' = "done"
              /\ UNCHANGED <<delkbs, deldocs, delrows, delindex>>
         ELSE /\ deldocs' = deldocs \ removed
              /\ delrows' = CascadeDelete(delrows, removed)
              /\ delindex' = DocumentIndex(delkbs, deldocs \ removed)
              /\ delpc' = "commit"
              /\ UNCHANGED <<delkbs, delres>>
    /\ UNCHANGED <<delstore0, delarg>>
    /\ UNCHANGED notDelete

\* return True: the transaction commits and the connection is closed
DeleteCommit(ok) ==
    /\ delpc = "commit"
    /\ IF ok
       THEN /\ delres' = "True"
            /\ delpc' = "done"
            /\ UNCHANGED <<delkbs, deldocs, delrows, delindex>>
       ELSE DeleteRaise("Exception")
    /\ UNCHANGED <<delstore0, delarg>>
    /\ UNCHANGED notDelete

DeleteNext ==
    \/ \E connected \in BOOLEAN : DeleteBegin(connected)
    \/ DeleteKbCheck
    \/ DeleteDocCheck
    \/ \E ok \in BOOLEAN : DeleteDocument(ok)
    \/ \E ok \in BOOLEAN : DeleteCommit(ok)


(***************************************************************************)
(* split_text as a function of its text and the configured chunk_size and  *)
(* chunk_overlap (mineru_process_legacy.py).  A window is the pair          *)
(* <<start, end>> of the slice text[start:end] the loop takes.              *)
(***************************************************************************)
\* a test for the last window that misses a window ending exactly at len(text)
IsLastStrict(end, len) == end > len

\* if end >= len(text): the window is the last one
IsLast(end, len) == end >= len

\* the windows the while loop of split_text takes from start_ on, for a text
\* of length len; the loop runs at most fuel times
RECURSIVE WindowsFrom(_, _, _, _, _)
WindowsFrom(len, size, overlap, start_, fuel) ==
    IF fuel = 0 \/ start_ >= len THEN <<>>
    ELSE IF IsLast(start_ + size, len) THEN <<<<start_, len>>>>
    ELSE <<<<start_, start_ + size>>>>
            \o WindowsFrom(len, size, overlap, NextStart(start_, size, overlap), fuel - 1)

\* the windows of a text of length len > chunk_size; with chunk_size >= 1 the
\* start advances on every iteration, so len iterations are enough
Windows(len, size, overlap) == WindowsFrom(len, size, overlap, 0, len)

\* the chunks of the windows: chunk = text[start:end], kept if chunk.strip()
RECURSIVE ChunksOf(_, _)
ChunksOf(text, windows) ==
    IF windows = <<>> THEN <<>>
    ELSE KeepIfNotBlank(Slice(text, Head(windows)[1], Head(windows)[2]))
            \o ChunksOf(text, Tail(windows))

\* split_text(text, "SlidingWindow", "normal")
SplitText(text, size, overlap) ==
    IF Len(text) <= size THEN KeepIfNotBlank(text)
    ELSE ChunksOf(text, Windows(Len(text), size, overlap))

\* the texts split_text is called with
SplitTexts == UNION {[1..n -> {"a", " "}] : n \in 0..MaxLen}

SplitTextIdle ==
    /\ stext = <<>>
    /\ ssize = 0
    /\ soverlap = 0
    /\ swindows = <<>>
    /\ schunks = <<>>
    /\ sagain = <<>>
    /\ spc = "off"

SplitTextInit ==
    /\ stext \in SplitTexts
    /\ ssize \in 0..MaxChunk
    /\ soverlap \in 0..MaxChunk
    /\ swindows = <<>>
    /\ schunks = <<>>
    /\ sagain = <<>>
    /\ spc = "call"

\* split_text returns: at once when len(text) <= chunk_size, else after the
\* sliding window
SplitTextCall ==
    /\ spc = "call"
    /\ Len(stext) <= ssize \/ ssize >= 1
    /\ swindows' = IF Len(stext) <= ssize THEN <<>>
                   ELSE Windows(Len(stext), ssize, soverlap)
    /\ schunks' = SplitText(stext, ssize, soverlap)
    /\ spc' = "done"
    /\ UNCHANGED <<stext, ssize, soverlap, sagain>>
    /\ UNCHANGED notSplitText

\* with chunk_size = 0 and a non-empty text the start never advances and
\* the while loop does not end
SplitTextSpin ==
    /\ spc = "call"
    /\ Len(stext) > ssize /\ ssize = 0
    /\ spc' = "spin"
    /\ UNCHANGED <<stext, ssize, soverlap, swindows, schunks, sagain>>
    /\ UNCHANGED notSplitText

\* split_text is applied again to each chunk it returned
SplitTextAgain ==
    /\ spc = "done"
    /\ sagain' = [j \in DOMAIN schunks |-> SplitText(schunks[j], ssize, soverlap)]
    /\ spc' = "again"
    /\ UNCHANGED <<stext, ssize, soverlap, swindows, schunks>>
    /\ UNCHANGED notSplitText

SplitTextNext == SplitTextCall \/ SplitTextSpin \/ SplitTextAgain


(***************************************************************************)
(* Image descriptions: extract_photo_url and replace_photo_text as         *)
(* save_results_to_json and save_something_to_vcdb apply them to one image *)
(* item (mineru_process_legacy.py).                                        *)
(***************************************************************************)
\* Python's None, as a value no string equals
None == <<"None">>

\* re.search(pattern, s): the start of the leftmost match, or -1
RECURSIVE SearchFrom(_, _)
SearchFrom(s, pos) ==
    IF pos >= Len(s) THEN -1
    ELSE IF MatchEnd(s, pos) # -1 THEN pos
    ELSE SearchFrom(s, pos + 1)

\* matches.group(2) of the match that starts at p
Group2(s, p) == Slice(s, AltClose(s, p) + 2, PathClose(s, p))

\* extract_photo_url
ExtractPhotoUrl(photo_url) ==
    IF SearchFrom(photo_url, 0) = -1 THEN None
    ELSE Group2(photo_url, SearchFrom(photo_url, 0))

\* replace_photo_text: f"![{description_text}]({matches.group(2)})"
ReplacePhotoText(raw_text, description_text) ==
    IF SearchFrom(raw_text, 0) = -1 THEN raw_text
    ELSE <<"!", "[">> \o description_text \o <<"]", "(">>
            \o Group2(raw_text, SearchFrom(raw_text, 0)) \o <<")">>

\* the contents of image items: complete references, and a reference cut
\* short by save_results_to_json_sync
ImageContents ==
    {<<"!", "[", "a", "]", "(", "h", "/", "b", ")">>,
     <<"!", "[", "]", "(", "h", "/", "b", ")">>,
     <<"!", "[", "a", "]", "(", "b", ")">>,
     <<"!", "[", "d", "]", "(", "h", "/", "c", ")">>,
     <<"a", "!", "[", "]", "(", "c", ")">>,
     <<"!", "[", "a", "]", "(", "h", "/">>}

\* the descriptions the multimodal backend may answer
Descriptions == UNION {[1..n -> {"d", "]", ")", "("}] : n \in 0..MaxDesc}

PhotoIdle ==
    /\ phcontent = <<>>
    /\ phurl0 = <<>>
    /\ phurl1 = <<>>
    /\ phpc = "off"

PhotoInit ==
    /\ phcontent \in ImageContents
    /\ phurl0 = <<>>
    /\ phurl1 = <<>>
    /\ phpc = "task"

\* save_results_to_json: describe_photo(extract_photo_url(result["content"]), index)
DescribeTask ==
    /\ phpc = "task"
    /\ phurl0' = ExtractPhotoUrl(phcontent)
    /\ phpc' = "describe"
    /\ UNCHANGED <<phcontent, phurl1>>
    /\ UNCHANGED notPhoto

\* save_results_to_json: results_dict[index]["content"] =
\* replace_photo_text(results_dict[index]["content"], result)
ReplaceContent(description) ==
    /\ phpc = "describe"
    /\ phcontent' = ReplacePhotoText(phcontent, description)
    /\ phpc' = "replaced"
    /\ UNCHANGED <<phurl0, phurl1>>
    /\ UNCHANGED notPhoto

\* save_something_to_vcdb: photo_url = extract_photo_url(text)
SavePhotoUrl ==
    /\ phpc = "replaced"
    /\ phurl1' = ExtractPhotoUrl(phcontent)
    /\ phpc' = "saved"
    /\ UNCHANGED <<phcontent, phurl0>>
    /\ UNCHANGED notPhoto

PhotoNext ==
    \/ DescribeTask
    \/ \E description \in Descriptions : ReplaceContent(description)
    \/ SavePhotoUrl


(***************************************************************************)
(* Enrichment of the staged items: the describe_photo tasks of             *)
(* save_results_to_json and the _embed tasks of embedding_json_file        *)
(* (mineru_process_legacy.py).  The tasks of a gather complete in any      *)
(* order; texts are taken to pass split_text_by_json unchanged.            *)
(***************************************************************************)
\* the contents of staged items: a text and two image references
EnrichContents ==
    {<<"text", <<"a">>>>,
     <<"image", <<"!", "[", "]", "(", "b", ")">>>>,
     <<"image", <<"!", "[", "]", "(", "c", ")">>>>}

EnrichLists == UNION {[1..n -> EnrichContents] : n \in 0..MaxStaged}

\* the description the multimodal backend gives of the image at a URL
DescriptionOf(url) == <<"d">> \o url

\* the vector the embedding backend gives for a content
EmbeddingOf(content) == <<"vec", content>>

\* the positions of the image items: the describe_photo tasks, in task order
ImageTasks(items) ==
    SelectSeq([i \in DOMAIN items |-> i], LAMBDA i : items[i].type = "image")

\* a gather whose results come in completion order
GatherAsCompleted(results, order) == [k \in DOMAIN order |-> results[order[k]]]

\* await asyncio.gather(*tasks): the results in the order of the tasks,
\* whatever the order in which they completed
GatherResults(results, order) == results

\* for index, result in results: results_dict[index]["content"] = replace_photo_text(...)
RECURSIVE ApplyDescriptions(_, _)
ApplyDescriptions(items, results) ==
    IF results = <<>> THEN items
    ELSE ApplyDescriptions(
            [items EXCEPT ![Head(results)[1] + 1].content =
                ReplacePhotoText(@, Head(results)[2])],
            Tail(results))

EnrichIdle ==
    /\ eitems0 = <<>>
    /\ eitems = <<>>
    /\ edone = <<>>
    /\ eorders = <<>>
    /\ epc = "off"

EnrichInit ==
    /\ eitems0 \in {[i \in DOMAIN l |->
                        [content |-> l[i][2], index |-> i - 1, type |-> l[i][1],
                         embedding |-> "None"]] : l \in EnrichLists}
    /\ eitems = eitems0
    /\ edone = <<>>
    /\ eorders = <<>>
    /\ epc = "describe"

\* a describe_photo task completes: k is its place in the task list
DescribeDone(k) ==
    /\ epc = "describe"
    /\ k \in DOMAIN ImageTasks(eitems)
    /\ \A j \in DOMAIN edone : edone[j] # k
    /\ edone' = Append(edone, k)
    /\ UNCHANGED <<eitems0, eitems, eorders, epc>>
    /\ UNCHANGED notEnrich

\* save_results_to_json after the gather: each result (index, description)
\* replaces the label of results_dict[index]
DescribeGather ==
    /\ epc = "describe"
    /\ Len(edone) = Len(ImageTasks(eitems))
    /\ LET tasks == ImageTasks(eitems)
           results == [k \in DOMAIN tasks |->
                          <<tasks[k] - 1,
                            DescriptionOf(ExtractPhotoUrl(eitems[tasks[k]].content))>>]
       IN eitems' = ApplyDescriptions(eitems, GatherResults(results, edone))
    /\ eorders' = Append(eorders, edone)
    /\ edone' = <<>>
    /\ epc' = "embed"
    /\ UNCHANGED eitems0
    /\ UNCHANGED notEnrich

\* an _embed task completes: k is its place in the task list
EmbedDone(k) ==
    /\ epc = "embed"
    /\ k \in DOMAIN eitems
    /\ \A j \in DOMAIN edone : edone[j] # k
    /\ edone' = Append(edone, k)
    /\ UNCHANGED <<eitems0, eitems, eorders, epc>>
    /\ UNCHANGED notEnrich

\* embedding_json_file after the gather: one entry of new_results_dict per
\* result (index, embedding, text, type), in the order of the results
EmbedWrite ==
    /\ epc = "embed"
    /\ Len(edone) = Len(eitems)
    /\ LET results == [k \in DOMAIN eitems |->
                          <<eitems[k].index, EmbeddingOf(eitems[k].content),
                            eitems[k].content, eitems[k].type>>]
           got == GatherResults(results, edone)
       IN eitems' = [k \in DOMAIN got |->
                        [index |-> got[k][1], content |-> got[k][3],
                         type |-> got[k][4], embedding |-> got[k][2]]]
    /\ eorders' = Append(eorders, edone)
    /\ edone' = <<>>
    /\ epc' = "done"
    /\ UNCHANGED eitems0
    /\ UNCHANGED notEnrich

EnrichNext ==
    \/ \E k \in 1..MaxStaged : DescribeDone(k)
    \/ DescribeGather
    \/ \E k \in 1..MaxStaged : EmbedDone(k)
    \/ EmbedWrite


(***************************************************************************)
(* Concurrent FileManager.upload_file calls of one user with the same      *)
(* bytes.  Each await of upload_file is a step; the calls share the        *)
(* documents table and the object store.                                   *)
(***************************************************************************)
\* the bytes and the user of the calls
SameUpload == [file_data |-> "a", user_id |-> "u1"]

\* str(uuid.uuid4()) of call c: every call draws an id of its own
Uuid4(c) == <<"new", c>>

ConcUploadIdle ==
    /\ cdocs = {}
    /\ cobjects = {}
    /\ cpc = <<>>
    /\ cret = <<>>

ConcUploadInit ==
    /\ cdocs \in SUBSET StoredDocuments
    /\ cobjects = {}
    /\ cpc = [c \in 1..NumUploads |-> "check"]
    /\ cret = [c \in 1..NumUploads |-> <<>>]

\* existing_doc_id = await self.db.check_file_exists(file_hash, user_id)
ConcCheckExisting(c, ok) ==
    /\ cpc[c] = "check"
    /\ LET existing == CheckFileExists(cdocs, Sha256(SameUpload.file_data),
                                       SameUpload.user_id, ok) IN
         IF existing # <<"None">>
         THEN /\ cret' = [cret EXCEPT ![c] = [success |-> TRUE, duplicate |-> TRUE,
                                              document_id |-> existing]]
              /\ cpc' = [cpc EXCEPT ![c] = "done"]
         ELSE /\ cpc' = [cpc EXCEPT ![c] = "upload"]
              /\ UNCHANGED cret
    /\ UNCHANGED <<cdocs, cobjects>>
    /\ UNCHANGED notConcUpload

\* storage_result = await self.storage.upload_file(..., filename =
\* f"{document_id}_{filename}"): the object is named after the new id
ConcStorageUpload(c, ok) ==
    /\ cpc[c] = "upload"
    /\ IF ok
       THEN /\ cobjects' = cobjects \cup {Uuid4(c)}
            /\ cpc' = [cpc EXCEPT ![c] = "create"]
            /\ UNCHANGED cret
       ELSE /\ cret' = [cret EXCEPT ![c] = [success |-> FALSE, duplicate |-> FALSE,
                                            document_id |-> <<"None">>]]
            /\ cpc' = [cpc EXCEPT ![c] = "done"]
            /\ UNCHANGED cobjects
    /\ UNCHANGED cdocs
    /\ UNCHANGED notConcUpload

\* success = await self.db.create_document(document): a plain INSERT keyed
\* on the new id; without success the object is deleted and the call fails
ConcCreateDocument(c, ok) ==
    /\ cpc[c] = "create"
    /\ IF ok
       THEN /\ cdocs' = cdocs \cup {[id |-> Uuid4(c),
                                     file_hash |-> Sha256(SameUpload.file_data),
                                     user_id |-> SameUpload.user_id]}
            /\ cret' = [cret EXCEPT ![c] = [success |-> TRUE, duplicate |-> FALSE,
                                            document_id |-> Uuid4(c)]]
            /\ UNCHANGED cobjects
       ELSE /\ cobjects' = cobjects \ {Uuid4(c)}
            /\ cret' = [cret EXCEPT ![c] = [success |-> FALSE, duplicate |-> FALSE,
                                            document_id |-> <<"None">>]]
            /\ UNCHANGED cdocs
    /\ cpc' = [cpc EXCEPT ![c] = "done"]
    /\ UNCHANGED notConcUpload

ConcUploadNext ==
    \E c \in 1..NumUploads, ok \in BOOLEAN :
        \/ ConcCheckExisting(c, ok)
        \/ ConcStorageUpload(c, ok)
        \/ ConcCreateDocument(c, ok)

(***************************************************************************)
(* Specifications.                                                         *)
(***************************************************************************)
InitSel == SelInit(1..NumCallers) /\ SegIdle /\ ChunkIdle /\ PipeIdle /\ DbIdle
                /\ RetryIdle
                /\ DownloadIdle
                /\ GraphIdle
                /\ UploadIdle
                /\ DeleteIdle
                /\ SplitTextIdle
                /\ PhotoIdle
                /\ EnrichIdle
                /\ ConcUploadIdle

InitSelSeq == SelInit({1}) /\ SegIdle /\ ChunkIdle /\ PipeIdle /\ DbIdle
                /\ RetryIdle
                /\ DownloadIdle
                /\ GraphIdle
                /\ UploadIdle
                /\ DeleteIdle
                /\ SplitTextIdle
                /\ PhotoIdle
                /\ EnrichIdle
                /\ ConcUploadIdle

InitSeg == SegInit /\ SelIdle /\ ChunkIdle /\ PipeIdle /\ DbIdle
                /\ RetryIdle
                /\ DownloadIdle
                /\ GraphIdle
                /\ UploadIdle
                /\ DeleteIdle
                /\ SplitTextIdle
                /\ PhotoIdle
                /\ EnrichIdle
                /\ ConcUploadIdle

InitChunk == ChunkInit /\ SelIdle /\ SegIdle /\ PipeIdle /\ DbIdle
                /\ RetryIdle
                /\ DownloadIdle
                /\ GraphIdle
                /\ UploadIdle
                /\ DeleteIdle
                /\ SplitTextIdle
                /\ PhotoIdle
                /\ EnrichIdle
                /\ ConcUploadIdle

InitPipe == PipeInit({1}, MaxStaged, {"simple", "normal", "other"})
                /\ SelIdle /\ SegIdle /\ ChunkIdle /\ DbIdle
                /\ RetryIdle
                /\ DownloadIdle
                /\ GraphIdle
                /\ UploadIdle
                /\ DeleteIdle
                /\ SplitTextIdle
                /\ PhotoIdle
                /\ EnrichIdle
                /\ ConcUploadIdle

InitPipeConc == PipeInit(1..NumRuns, 1, {"simple"})
                /\ SelIdle /\ SegIdle /\ ChunkIdle /\ DbIdle
                /\ RetryIdle
                /\ DownloadIdle
                /\ GraphIdle
                /\ UploadIdle
                /\ DeleteIdle
                /\ SplitTextIdle
                /\ PhotoIdle
                /\ EnrichIdle
                /\ ConcUploadIdle

InitDb == DbInit(1..NumWriters) /\ SelIdle /\ SegIdle /\ ChunkIdle /\ PipeIdle
                /\ RetryIdle
                /\ DownloadIdle
                /\ GraphIdle
                /\ UploadIdle
                /\ DeleteIdle
                /\ SplitTextIdle
                /\ PhotoIdle
                /\ EnrichIdle
                /\ ConcUploadIdle

InitRetry == RetryInit
                /\ ChunkIdle /\ DbIdle /\ PipeIdle /\ SegIdle /\ SelIdle
                /\ DownloadIdle
                /\ GraphIdle
                /\ UploadIdle
                /\ DeleteIdle
                /\ SplitTextIdle
                /\ PhotoIdle
                /\ EnrichIdle
                /\ ConcUploadIdle

InitDownload == DownloadInit
                /\ ChunkIdle /\ DbIdle /\ PipeIdle /\ RetryIdle /\ SegIdle /\ SelIdle
                /\ GraphIdle
                /\ UploadIdle
                /\ DeleteIdle
                /\ SplitTextIdle
                /\ PhotoIdle
                /\ EnrichIdle
                /\ ConcUploadIdle

InitGraph == GraphInit
                /\ ChunkIdle /\ DbIdle /\ DownloadIdle /\ PipeIdle /\ RetryIdle /\ SegIdle /\ SelIdle
                /\ UploadIdle
                /\ DeleteIdle
                /\ SplitTextIdle
                /\ PhotoIdle
                /\ EnrichIdle
                /\ ConcUploadIdle

InitUpload == UploadInit
                /\ ChunkIdle /\ DbIdle /\ DownloadIdle /\ GraphIdle /\ PipeIdle /\ RetryIdle /\ SegIdle /\ SelIdle
                /\ DeleteIdle
                /\ SplitTextIdle
                /\ PhotoIdle
                /\ EnrichIdle
                /\ ConcUploadIdle

InitDelete == DeleteInit
                /\ ChunkIdle /\ DbIdle /\ DownloadIdle /\ GraphIdle /\ PipeIdle /\ RetryIdle /\ SegIdle /\ SelIdle /\ UploadIdle
                /\ SplitTextIdle
                /\ PhotoIdle
                /\ EnrichIdle
                /\ ConcUploadIdle

InitSplitText == SplitTextInit
                /\ ChunkIdle /\ DbIdle /\ DeleteIdle /\ DownloadIdle /\ GraphIdle /\ PipeIdle /\ RetryIdle /\ SegIdle /\ SelIdle /\ UploadIdle
                /\ PhotoIdle
                /\ EnrichIdle
                /\ ConcUploadIdle

InitPhoto == PhotoInit
                /\ ChunkIdle /\ DbIdle /\ DeleteIdle /\ DownloadIdle /\ GraphIdle /\ PipeIdle /\ RetryIdle /\ SegIdle /\ SelIdle /\ SplitTextIdle /\ UploadIdle
                /\ EnrichIdle
                /\ ConcUploadIdle

InitEnrich == EnrichInit
                /\ ChunkIdle /\ DbIdle /\ DeleteIdle /\ DownloadIdle /\ GraphIdle /\ PhotoIdle /\ PipeIdle /\ RetryIdle /\ SegIdle /\ SelIdle /\ SplitTextIdle /\ UploadIdle
                /\ ConcUploadIdle

InitConcUpload == ConcUploadInit
                /\ ChunkIdle /\ DbIdle /\ DeleteIdle /\ DownloadIdle /\ EnrichIdle /\ GraphIdle /\ PhotoIdle /\ PipeIdle /\ RetryIdle /\ SegIdle /\ SelIdle /\ SplitTextIdle /\ UploadIdle

\* several threads call the selector
SpecSel == InitSel /\ [][SelNext]_vars

\* one caller: every call returns before the next one starts
SpecSelSeq == InitSelSeq /\ [][SelNext]_vars

\* the segmenter applied to every text of Texts
SpecSeg == InitSeg /\ [][SegNext]_vars

\* split_text_by_json applied to every staging file of ItemLists under every
\* chunk_size and chunk_overlap
SpecChunk == InitChunk /\ [][ChunkNext]_vars

\* one document is ingested
SpecPipe == InitPipe /\ [][PipeNext]_vars

\* several documents are ingested concurrently on one event loop
SpecPipeConc == InitPipeConc /\ [][PipeNext]_vars

\* several calls of the persistence writer, each in its own transaction
SpecDb == InitDb /\ [][DbNext]_vars

\* one call of describe_photo or embedding_text over its attempts
SpecRetry == InitRetry /\ [][RetryNext]_vars

\* one download_file call with its fallback and its retries
SpecDownload == InitDownload /\ [][DownloadNext]_vars

\* one produce_document_graph call over a knowledge base
SpecGraph == InitGraph /\ [][GraphNext]_vars

\* one upload_file call on a store that may hold the file already
SpecUpload == InitUpload /\ [][UploadNext]_vars

\* one delete_file_from_vcdb call on a store of knowledge bases and documents
SpecDelete == InitDelete /\ [][DeleteNext]_vars

\* split_text is called on one text and then on each chunk it returned
SpecSplitText == InitSplitText /\ [][SplitTextNext]_vars

\* one image item is described and persisted
SpecPhoto == InitPhoto /\ [][PhotoNext]_vars

\* the images of a staging file are described and its items embedded
SpecEnrich == InitEnrich /\ [][EnrichNext]_vars

\* several upload_file calls of one user with the same bytes
SpecConcUpload == InitConcUpload /\ [][ConcUploadNext]_vars

(***************************************************************************)
(* Properties of the backend selector.                                     *)
(***************************************************************************)
RECURSIVE SumOver(_, _)
SumOver(f, keys) ==
    IF keys = {} THEN 0
    ELSE LET k == CHOOSE x \in keys : TRUE IN f[k] + SumOver(f, keys \ {k})

\* completed calls of one criterion, whatever their outcome
Completed(h, crit) == SumOver(h, {key \in DOMAIN h : key[1] = crit})

\* how many of the call numbers 0..n-1 are congruent to i modulo k
Turns(n, k, i) == Cardinality({j \in 0..(n - 1) : j % k = i})

Quiescent == \A c \in callers : selpc[c] = "idle"

TypeCriteria == {<<"type", t>> : t \in TypeSet}
AliasCriteria == {<<"alias", a>> : a \in AliasArgs \ {"None"}}

\* C1: under any interleaving of concurrent callers, once the n calls made
\* with one type or alias criterion have completed, every instance of the
\* group of k >= 1 instances has been returned floor(n/k) or ceil(n/k) times.
C1_ConcurrentRoundRobinFair ==
    Quiescent =>
        \A crit \in TypeCriteria \cup AliasCriteria :
            LET k == Len(Group(cfg, crit))
                n == Completed(hist, crit) IN
              k >= 1 =>
                \A i \in 0..(k - 1) :
                    Served(hist, crit, <<"ok", i>>) \in {n \div k, (n + k - 1) \div k}

\* C2: with a single caller, the i-th call (i = 0, 1, ...) for a type with
\* k >= 1 instances returns instance i mod k: after n completed calls instance
\* i has been returned once for every call number congruent to i modulo k.
C2_SequentialRoundRobin ==
    \A crit \in TypeCriteria :
        LET k == Len(Group(cfg, crit))
            n == Completed(hist, crit) IN
          k >= 1 =>
            \A i \in 0..(k - 1) :
                Served(hist, crit, <<"ok", i>>) = Turns(n, k, i)

\* C2 witness: a type with at least two instances has been selected more
\* often than it has instances, so the cursor has wrapped around.
C2_Witness ==
    \E crit \in TypeCriteria :
        /\ Len(Group(cfg, crit)) >= 2
        /\ Completed(hist, crit) > Len(Group(cfg, crit))
        /\ Served(hist, crit, <<"ok", 0>>) >= 2

(***************************************************************************)
(* Properties of the segmenter.                                            *)
(***************************************************************************)
\* C7: the returned segments are non-empty half-open spans in strictly
\* increasing start order, the first starts at 0, each starts where the
\* previous one ends and the last ends at len(text).
C7_SegmentsCoverText ==
    segpc = "done" =>
        LET r == segResults
            n == Len(r) IN
          /\ \A i \in 1..n : r[i][1] < r[i][2]
          /\ \A i \in 1..(n - 1) : r[i][1] < r[i + 1][1] /\ r[i][2] = r[i + 1][1]
          /\ n > 0 => r[1][1] = 0 /\ r[n][2] = Len(segText)
          /\ n = 0 => Len(segText) = 0

\* C7 witness: a text with text before, between and after two images.
C7_Witness ==
    /\ segpc = "done"
    /\ Len(segResults) >= 4
    /\ \E i \in 1..(Len(segResults) - 2) :
          /\ segResults[i][3] = "image"
          /\ segResults[i + 1][3] = "text"
          /\ segResults[i + 2][3] = "image"
    /\ segResults[Len(segResults)][3] = "text"

(***************************************************************************)
(* Properties of the chunker.                                              *)
(***************************************************************************)
\* C6: after split_text_by_json the index values of the output items are
\* exactly 0, 1, ..., k-1 in list order, without gap or duplicate.
C6_DensePositions ==
    chunkpc = "done" =>
        \A j \in 1..Len(new_results) : new_results[j].index = j - 1

\* C6 witness: an image item follows a text item whose chunks were not one
\* for one (a whitespace-only text dropped, or a text split in several).
C6_Witness ==
    /\ chunkpc = "done"
    /\ Len(results_dict) = 2
    /\ results_dict[1].type = "text"
    /\ results_dict[2].type = "image"
    /\ Len(new_results) # 2
    /\ new_results[Len(new_results)].type = "image"

\* C8: the window start cursor of split_text strictly increases on every
\* iteration of the loop, for all non-negative chunk_size and chunk_overlap.
C8_CursorStrictlyIncreases ==
    [][(chunkpc = "loop" /\ chunkpc' = "loop") => start' > start]_vars

(***************************************************************************)
(* Properties of the ingestion pipeline.                                   *)
(***************************************************************************)
Terminated(r) == result[r] # "none"

\* C3: once mineru_process has terminated, by returning or by raising, a
\* document row of the run exists only with its public URLs set.
C3_NoOrphanDocumentRow ==
    \A r \in runs : Terminated(r) => docrow[r] \in {"absent", "urls"}

\* embedding_json_file has returned to mineru_process
Embedded(r) == ppc[r] \in {"persist", "persist_gather", "upload_md", "upload_pdf",
                           "connect", "update", "finally"}

C10_GlobalEmbeddingBound ==
    Cardinality({ri \in runs \X (1..MaxStaged) : ri[2] \in Running(ri[1])})
        <= ConcurrencyLimit(semaphore)

(***************************************************************************)
(* Properties of the persistence writer.                                   *)
(***************************************************************************)
AllSaved == \A w \in writers : wpc[w] = "done"

SameTriple ==
    \A w, x \in writers :
        /\ warg[w].user = warg[x].user
        /\ warg[w].kb = warg[x].kb
        /\ warg[w].doc = warg[x].doc

\* C4: text and image writes that name the same user, knowledge base and
\* document, run one after the other or concurrently in separate
\* transactions, leave exactly one user row, one knowledge-base row of that
\* user and one document row, and none of them fails because a sibling
\* created one of those rows first.  (Rows of these ids under another
\* owner are the case of C5.)
C4_IdempotentUpserts ==
    (AllSaved /\ SameTriple /\ \A w \in writers : ~mismatch[w]) =>
        /\ \A w \in writers : wres[w] \notin {"UniqueViolation", "ForeignKeyViolation"}
        /\ \A w \in writers : wres[w] = "ok" =>
              /\ warg[w].user \in users
              /\ {kb \in kbs : kb[1] = warg[w].kb} = {<<warg[w].kb, warg[w].user>>}
              /\ {dc \in docs : dc[1] = warg[w].doc} = {<<warg[w].doc, warg[w].kb>>}
              /\ \E row \in rowtbl : row.writer = w /\ row.doc = warg[w].doc

\* C4 witness: a text write and an image write of the same triple have both
\* succeeded, and the INSERT of one of them did nothing because its sibling
\* had created the row after the check.
C4_Witness ==
    /\ AllSaved /\ SameTriple
    /\ \A w \in writers : ~mismatch[w] /\ wres[w] = "ok"
    /\ \E w, x \in writers : warg[w].kind = "text" /\ warg[x].kind = "image"
    /\ \E w \in writers : skips[w] # {}

\* C5: a write that names a knowledge base of another user, or a document
\* of another knowledge base, fails with a validation error and writes no
\* row (a write that ends on a failure of the store itself is left aside).
C5_OwnershipMismatchRejected ==
    \A w \in writers :
        (wpc[w] = "done" /\ mismatch[w] /\ wres[w] # "Exception") =>
            /\ Raised(wres[w]) = "ValueError"
            /\ wres[w] # "ok"
            /\ ~(\E row \in rowtbl : row.writer = w)

(***************************************************************************)
(* Properties of the retried backend calls.                                *)
(***************************************************************************)
\* an attempt that was answered with a 4xx status other than 429
ClientError(o) == o.status >= 400 /\ o.status < 500 /\ o.status # 429

\* an attempt that met a connection error, a protocol error or a 5xx/429 status
Transient(o) == o.fault \in Faults \/ o.status >= 500 \/ o.status = 429

\* C11: an attempt answered with a 4xx status other than 429 is the only
\* attempt of the call and its error reaches the caller; only connection
\* errors, protocol errors and 5xx/429 statuses are followed by another
\* attempt, and there are at most three attempts.
C11_ClientErrorNotRetried ==
    /\ Len(rlog) <= MaxAttempts
    /\ \A i \in 1..Len(rlog) :
          ClientError(rlog[i]) =>
              /\ Len(rlog) = 1
              /\ rpc = "done"
              /\ rres = "HTTPStatusError"
    /\ \A i \in 1..(Len(rlog) - 1) : Transient(rlog[i])

(***************************************************************************)
(* Properties of download_file.                                            *)
(***************************************************************************)
FallbackRequests == {n \in 1..Len(dreqs) : dreqs[n].fallback}

MatchesPublicPrefix == dcfg.public_url_prefix # "" /\ StartsWith(durl, dcfg.public_url_prefix)

\* C12: in one download_file call for a URL under the public prefix whose
\* request fails, the request to the internal address is made exactly once,
\* and when it fails too the caller gets the error of the first request; for
\* a URL that is not under the prefix no fallback request is made.
C12_FallbackOnceOriginalError ==
    dpc # "idle" =>
        /\ ~MatchesPublicPrefix => FallbackRequests = {}
        /\ Cardinality(FallbackRequests) <= 1
        /\ (dpc = "done" /\ dres.kind # "ok" /\ FallbackRequests # {}) =>
              /\ dres.request = 1
              /\ dres.kind = dreqs[1].outcome

(***************************************************************************)
(* Further properties of the ingestion pipeline.                           *)
(***************************************************************************)
\* C13: whenever mineru_process has terminated, by returning or by raising
\* at any stage, none of the scratch files it created (downloaded source,
\* intermediate Markdown, staging JSON, OCR output) is left on disk.
C13_NoScratchFileLeft ==
    \A r \in runs : Terminated(r) => files[r] \cap ScratchFiles = {}

(***************************************************************************)
(* Properties of the tag extraction.                                       *)
(***************************************************************************)
\* the call went past its checks, over n >= 1 documents
GraphBatch == gpc # "idle" /\ gfound.user /\ gfound.kb /\ Len(gdocs) >= 1

\* the summarization of document d failed: timeouts on all three attempts,
\* a status other than 200, no JSON block, invalid JSON or a schema violation
SummaryFailed(d) ==
    /\ d \in DOMAIN gtasks
    /\ gtasks[d].st # "wait"
    /\ gdocs[d].text # ""
    /\ gtasks[d].tags = <<>>

\* C14: a failure of the summarization of any of the documents does not
\* abort the batch: unless the store itself fails, the call returns status
\* ok and every document whose summarization gave tags has them written.
C14_FailedSummaryDoesNotAbort ==
    (GraphBatch /\ gstore = "ok") =>
        /\ \A d \in DOMAIN gtasks : gtasks[d].st # "raised"
        /\ gpc = "done" =>
              /\ gret.status = "ok"
              /\ \A d \in DOMAIN gdocs :
                    IF gtasks[d].tags # <<>>
                    THEN gtags[d] = [set |-> TRUE, v |-> gtasks[d].tags]
                    ELSE gtags[d] = gdocs[d].tags

\* C14 witness: the call has returned ok; the summarization of one document
\* failed after three timed-out attempts and another document got its tags.
C14_Witness ==
    /\ GraphBatch /\ gpc = "done" /\ gret.status = "ok"
    /\ \E d, e \in DOMAIN gdocs :
          /\ SummaryFailed(d) /\ gtasks[d].attempts = MaxAttempts
          /\ gtasks[e].tags # <<>>
          /\ gtags[e] = [set |-> TRUE, v |-> gtasks[e].tags]
          /\ gtags[e] # gdocs[e].tags

\* C15: every tag list in the tags column is a list of 1 to 6 strings: an
\* answer with 0 items, with more than 6 items or with an item that is not
\* a string is never written.
C15_WrittenTagsWithinSchema ==
    \A d \in DOMAIN gtags :
        gtags[d].set =>
            /\ Len(gtags[d].v) >= 1
            /\ Len(gtags[d].v) <= TagsAtMost
            /\ \A i \in 1..Len(gtags[d].v) : gtags[d].v[i] = "string"

(***************************************************************************)
(* Properties of FileManager.upload_file.                                  *)
(***************************************************************************)
\* C16: upload_file called with bytes whose SHA-256 digest already belongs
\* to a stored document of the same user makes no object-store upload,
\* creates no document row and starts no OCR task, and returns the id of
\* that document with duplicate = true.
C16_DuplicateShortCircuits ==
    uhad =>
        /\ uuploads = 0
        /\ \A row \in udocs : row.id[1] = "old"
        /\ uocr = {}
        /\ upc = "done" =>
              /\ uret.duplicate
              /\ \E row \in RowsWithHash(udocs, Sha256(uarg.file_data), uarg.user_id) :
                    uret.document_id = row.id

(***************************************************************************)
(* Properties of delete_file_from_vcdb.                                    *)
(***************************************************************************)
\* C17: after delete_file_from_vcdb has returned True, the document row,
\* every chunk and photo row of the document and the id of the document in
\* the document index of the knowledge base are gone, and no row of another
\* document has been removed.
C17_DeleteRemovesDocumentOnly ==
    (delpc = "done" /\ delres = "True") =>
        /\ ~(\E dc \in deldocs : dc[1] = delarg.doc)
        /\ ~(\E row \in delrows : row[2] = delarg.doc)
        /\ delarg.doc \notin delindex[delarg.kb]
        /\ deldocs = {dc \in delstore0.docs : dc[1] # delarg.doc}
        /\ delrows = {row \in delstore0.rows : row[2] # delarg.doc}
        /\ delkbs = delstore0.kbs

\* C17 witness: the call has returned True for a document that had a chunk
\* and a photo row, in a store that holds rows of another document.
C17_Witness ==
    /\ delpc = "done" /\ delres = "True"
    /\ {<<"chunk", delarg.doc>>, <<"photo", delarg.doc>>} \subseteq delstore0.rows
    /\ \E row \in delrows : row[2] # delarg.doc
    /\ \E dc \in deldocs : dc[2] = delarg.kb

\* the checks of the call against the store it found
OwnershipHolds ==
    /\ <<delarg.kb, delarg.user>> \in delstore0.kbs
    /\ <<delarg.doc, delarg.kb>> \in delstore0.docs

StoreUnchanged ==
    /\ delkbs = delstore0.kbs
    /\ deldocs = delstore0.docs
    /\ delrows = delstore0.rows
    /\ delindex = DocumentIndex(delstore0.kbs, delstore0.docs)

\* C18: when the knowledge base does not exist or is not the user's, or the
\* document does not exist in the knowledge base, the call raises a
\* validation error (unless the store cannot be reached) and the store is
\* unchanged; a row is removed only after both checks have passed.
C18_MismatchRejectedStoreUnchanged ==
    /\ (delpc # "idle" /\ ~OwnershipHolds) =>
          /\ StoreUnchanged
          /\ (delpc = "done" /\ delres # "Exception") => delres = "ValueError"
    /\ (delpc # "idle" /\ ~StoreUnchanged) =>
          /\ OwnershipHolds
          /\ delpc \in {"commit", "done"}

\* C18 witness: the call was made for a document of a knowledge base of
\* another user and has raised the validation error.
C18_Witness ==
    /\ delpc = "done" /\ delres = "ValueError"
    /\ delarg.user # ""
    /\ \E kb \in delstore0.kbs : kb[1] = delarg.kb /\ kb[2] # delarg.user
    /\ <<delarg.doc, delarg.kb>> \in delstore0.docs

(***************************************************************************)
(* Error paths of the backend selector.                                    *)
(***************************************************************************)
\* the step ends the call of caller c with a ValueError
RaisesValueError(c) ==
    /\ selpc'[c] = "idle"
    /\ \E k \in DOMAIN hist' :
          /\ k[2] = <<"ValueError", 0>>
          /\ hist'[k] = Served(hist, k[1], k[2]) + 1

\* the step returns no instance to any caller
NothingReturned ==
    \A k \in DOMAIN hist' : k[2][1] = "ok" => hist'[k] = Served(hist, k[1], k[2])

CursorsUnchanged == UNCHANGED <<shared_index, type_indices, alias_indices>>

\* C19: a call of get_latest_embedding_instance with both alias and
\* instance_type set (not None, the empty string included) raises ValueError
\* at once, returns no instance and leaves the global cursor, the per-type
\* cursors and the per-alias cursors unchanged.
C19_BothSetUsageError ==
    [][\A c \in callers :
         \A a \in AliasArgs \ {"None"}, t \in TypeArgs \ {"None"} :
            SelectBegin(c, a, t) =>
                RaisesValueError(c) /\ NothingReturned /\ CursorsUnchanged]_vars

\* C19 witness: a call with both arguments set has been rejected after other
\* calls had moved a cursor.
C19_Witness ==
    /\ Served(hist, <<"usage", "">>, <<"ValueError", 0>>) >= 1
    /\ \/ shared_index > 0
       \/ \E t \in DOMAIN type_indices : type_indices[t] > 0
       \/ \E a \in DOMAIN alias_indices : alias_indices[a] > 0

\* no instance of the configuration has the type / carries the alias
NoInstanceOfType(t) == t \notin TypeSet \/ cfg[t] = 0
NoInstanceOfAlias(a) ==
    \A i \in 1..Len(AllInstances(cfg)) : ~HasAlias(AllInstances(cfg)[i], a)

\* C20: a call of get_latest_embedding_instance with only a type, or only an
\* alias, that names no configured instance (a type with an empty list, an
\* unknown type name, an unknown alias) raises ValueError at once, returns
\* no instance and leaves every cursor unchanged.
C20_EmptyGroupConfigurationError ==
    [][\A c \in callers :
         /\ \A t \in TypeArgs \ {"None"} :
               NoInstanceOfType(t) /\ SelectBegin(c, "None", t) =>
                   RaisesValueError(c) /\ NothingReturned /\ CursorsUnchanged
         /\ \A a \in AliasArgs \ {"None", ""} :
               NoInstanceOfAlias(a) /\ SelectBegin(c, a, "None") =>
                   RaisesValueError(c) /\ NothingReturned /\ CursorsUnchanged]_vars

\* C20 witness: a type whose configured list is empty, an unknown type name
\* and an unknown alias have each been rejected, while another type has
\* instances.
C20_Witness ==
    /\ \E t \in TypeSet : cfg[t] = 0 /\ Served(hist, <<"type", t>>, <<"ValueError", 0>>) >= 1
    /\ Served(hist, <<"type", "bogus">>, <<"ValueError", 0>>) >= 1
    /\ Served(hist, <<"alias", "missing">>, <<"ValueError", 0>>) >= 1
    /\ \E t \in TypeSet : cfg[t] > 0

(***************************************************************************)
(* Global rotation and cursor ranges of the backend selector.              *)
(***************************************************************************)
NoCriterion == <<"none", "">>

\* C21: with at least one instance configured overall (some type groups may
\* be empty), no call without criterion fails, and once the n calls without
\* criterion have completed every instance of the combined list of k
\* instances has been returned floor(n/k) or ceil(n/k) times.
C21_GlobalRotationOverCombinedList ==
    LET k == Len(AllInstances(cfg))
        n == Completed(hist, NoCriterion) IN
      k >= 1 =>
        /\ Served(hist, NoCriterion, <<"IndexError", 0>>) = 0
        /\ Quiescent =>
             \A i \in 0..(k - 1) :
                Served(hist, NoCriterion, <<"ok", i>>) \in {n \div k, (n + k - 1) \div k}

(***************************************************************************)
(* Further properties of the segmenter.                                    *)
(***************************************************************************)
IsImage(seg) == seg[3] = "image"

\* C22: with N the number of matches of the image pattern in the text, the
\* result has at most 2N+1 segments, its image segments are exactly the N
\* matches in match order, no text segment is empty, no two text segments
\* are adjacent, two matches that touch are adjacent segments, and with
\* N = 0 the result is the whole text as one text segment, or no segment
\* for the empty text.
C22_SegmentCountAndAlternation ==
    segpc = "done" =>
        LET r == segResults
            m == FindIter(segText, 0)
            N == Len(m) IN
          /\ Len(r) <= 2 * N + 1
          /\ SelectSeq(r, IsImage) = m
          /\ \A i \in 1..Len(r) : ~IsImage(r[i]) => r[i][1] < r[i][2]
          /\ \A i \in 1..(Len(r) - 1) : IsImage(r[i]) \/ IsImage(r[i + 1])
          /\ \A j \in 1..(N - 1) :
                m[j][2] = m[j + 1][1] =>
                    \E i \in 1..(Len(r) - 1) : r[i] = m[j] /\ r[i + 1] = m[j + 1]
          /\ N = 0 =>
                r = IF Len(segText) = 0 THEN <<>>
                    ELSE <<<<0, Len(segText), "text">>>>

\* C22 witness: two image references back to back, with text after them.
C22_Witness ==
    /\ segpc = "done"
    /\ Len(segResults) = 3
    /\ IsImage(segResults[1]) /\ IsImage(segResults[2])
    /\ segResults[3][3] = "text"

(***************************************************************************)
(* Properties of split_text.                                               *)
(***************************************************************************)
Returned == spc \in {"done", "again"}

HasInk(text) == \E i \in 1..Len(text) : text[i] # " "

\* C23: when chunk_size >= len(text), split_text returns the text itself as
\* its only chunk when the text has a non-whitespace character and no chunk
\* otherwise, and split_text applied to each returned chunk returns that
\* chunk alone, unchanged.
C23_SplitIdempotentWithinChunkSize ==
    Len(stext) <= ssize =>
        /\ Returned => schunks = IF HasInk(stext) THEN <<stext>> ELSE <<>>
        /\ spc = "again" =>
              /\ Len(sagain) = Len(schunks)
              /\ \A j \in 1..Len(schunks) : sagain[j] = <<schunks[j]>>

\* C23 witness: a text with a space and a letter, as long as chunk_size, has
\* been split and its chunk split again.
C23_Witness ==
    /\ spc = "again"
    /\ Len(stext) = ssize /\ ssize >= 2
    /\ HasInk(stext) /\ \E i \in 1..Len(stext) : stext[i] = " "
    /\ sagain = <<<<stext>>>>

\* the windows of the end-to-end scenario: 50,000 characters, chunk_size
\* 30,000, chunk_overlap 500
ScenarioWindows == Windows(50000, 30000, 500)

NoBlankWindow ==
    \A i \in 1..Len(swindows) : HasInk(Slice(stext, swindows[i][1], swindows[i][2]))

\* C24: for a text of length L > chunk_size with chunk_overlap < chunk_size
\* and no whitespace-only window, the i-th window (i = 0, 1, ...) starts at
\* i * (chunk_size - chunk_overlap); every window but the last has
\* chunk_size characters and ends before L, the last is the first whose end
\* start + chunk_size reaches L and runs to L; the chunks are the slices of
\* the windows.  For L = 50000, chunk_size = 30000, chunk_overlap = 500 the
\* windows are [0, 30000) and [29500, 50000).
C24_WindowPositions ==
    /\ ScenarioWindows = <<<<0, 30000>>, <<29500, 50000>>>>
    /\ (Returned /\ Len(stext) > ssize /\ soverlap < ssize /\ NoBlankWindow) =>
          LET step == ssize - soverlap
              n == Len(swindows) IN
            /\ n >= 1
            /\ \A i \in 1..(n - 1) :
                  /\ swindows[i] = <<(i - 1) * step, (i - 1) * step + ssize>>
                  /\ swindows[i][2] < Len(stext)
            /\ swindows[n] = <<(n - 1) * step, Len(stext)>>
            /\ (n - 1) * step + ssize >= Len(stext)
            /\ schunks = [i \in 1..n |-> Slice(stext, swindows[i][1], swindows[i][2])]

\* C24 witness: three windows with an overlap of one character.
C24_Witness ==
    /\ Returned
    /\ soverlap = 1 /\ ssize = 2
    /\ NoBlankWindow
    /\ Len(schunks) = 3

\* the windows whose chunk split_text keeps
Emitted == SelectSeq(swindows, LAMBDA w : HasInk(Slice(stext, w[1], w[2])))

\* C29: for a text longer than chunk_size >= 1 and any chunk_overlap >= 0,
\* the returned chunks are the slices of the windows that are not
\* whitespace-only, in strictly increasing start order; every
\* non-whitespace character lies in one of them; two consecutive windows
\* have exactly chunk_overlap characters in common when chunk_overlap <
\* chunk_size, and the second starts where the first ends otherwise.
C29_WindowsCoverText ==
    (Returned /\ Len(stext) > ssize /\ ssize >= 1) =>
        /\ schunks = [j \in 1..Len(Emitted) |-> Slice(stext, Emitted[j][1], Emitted[j][2])]
        /\ \A j \in 1..(Len(Emitted) - 1) : Emitted[j][1] < Emitted[j + 1][1]
        /\ \A p \in 1..Len(stext) :
              stext[p] # " " =>
                  \E j \in 1..Len(Emitted) : Emitted[j][1] < p /\ p <= Emitted[j][2]
        /\ \A i \in 1..(Len(swindows) - 1) :
              IF soverlap < ssize
              THEN /\ swindows[i][2] - swindows[i + 1][1] = soverlap
                   /\ swindows[i + 1][1] >= swindows[i][1]
                   /\ swindows[i + 1][2] >= swindows[i][2]
              ELSE swindows[i + 1][1] = swindows[i][2]

\* C29 witness: chunk_overlap >= chunk_size, a whitespace-only window
\* dropped between two chunks that were kept.
C29_Witness ==
    /\ Returned
    /\ ssize >= 1 /\ soverlap >= ssize
    /\ Len(swindows) >= 3
    /\ Len(schunks) = Len(swindows) - 1
    /\ HasInk(Slice(stext, swindows[1][1], swindows[1][2]))
    /\ HasInk(Slice(stext, swindows[Len(swindows)][1], swindows[Len(swindows)][2]))

(***************************************************************************)
(* Contents of the staged segments.                                        *)
(***************************************************************************)
\* the span of the rewritten text that belongs to a segment
OwnContent(text, seg) ==
    IF IsImage(seg) THEN ConvertImage(Slice(text, seg[1], seg[2]))
    ELSE Slice(text, seg[1], seg[2])

\* C25: the content save_results_to_json_sync stores for a segment is the
\* segment's own span of the rewritten text: the complete rewritten image
\* reference for an image segment, the original span for a text segment;
\* the contents in order concatenate to the rewritten text.
C25_ContentIsOwnSpan ==
    segpc = "saved" =>
        /\ \A i \in 1..Len(segResults) :
              segItems[i].content = OwnContent(segText, segResults[i])
        /\ Concat([i \in 1..Len(segItems) |-> segItems[i].content]) = segConverted

(***************************************************************************)
(* Properties of the image descriptions.                                   *)
(***************************************************************************)
\* C26: for an image item with a URL and every description, the URL that
\* save_something_to_vcdb extracts after replace_photo_text is the URL that
\* was extracted before it, and is not None.
C26_DescriptionKeepsUrl ==
    (phpc = "saved" /\ phurl0 # None) => phurl1 = phurl0

\* the call of caller c has read its cursor and has not returned yet
HasRead(c) == selpc[c] \in {"addindex", "wrap", "return"}

\* C28: the index a call has read is a valid index of the instance list it
\* selects from (the combined list included, also when it is empty), and
\* whenever no call is running every cursor of a group with instances is a
\* valid index of its group.
C28_CursorsWithinGroup ==
    /\ \A c \in callers :
          HasRead(c) =>
              latest_index[c] < Len(Group(cfg, Criterion(selarg[c][1], selarg[c][2])))
    /\ Quiescent =>
          /\ Len(AllInstances(cfg)) >= 1 => shared_index < Len(AllInstances(cfg))
          /\ \A t \in DOMAIN type_indices :
                type_indices[t] < Len(GetInstancesByType(cfg, t))
          /\ \A a \in DOMAIN alias_indices :
                alias_indices[a] < Len(GetInstancesByAlias(cfg, a))

(***************************************************************************)
(* Properties of the enrichment.                                           *)
(***************************************************************************)
\* the content item i must carry after the descriptions
Described(item) ==
    IF item.type = "image"
    THEN ReplacePhotoText(item.content, DescriptionOf(ExtractPhotoUrl(item.content)))
    ELSE item.content

\* C27: whatever the order in which the describe_photo tasks and the _embed
\* tasks completed, the written list has one item per staged item, in
\* increasing index order; item i carries the description computed from the
\* URL of image i and the embedding computed from its own content.
C27_ResultsAttachedByIndex ==
    epc = "done" =>
        /\ Len(eitems) = Len(eitems0)
        /\ \A i \in 1..Len(eitems) :
              /\ eitems[i].index = i - 1
              /\ eitems[i].type = eitems0[i].type
              /\ eitems[i].content = Described(eitems0[i])
              /\ eitems[i].embedding = EmbeddingOf(eitems[i].content)

\* C27 witness: two images with different URLs; in both gathers the second
\* task completed first.
C27_Witness ==
    /\ epc = "done"
    /\ Len(eitems0) = 2
    /\ eitems0[1].type = "image" /\ eitems0[2].type = "image"
    /\ eitems0[1].content # eitems0[2].content
    /\ eorders = <<<<2, 1>>, <<2, 1>>>>

(***************************************************************************)
(* Properties of concurrent uploads.                                       *)
(***************************************************************************)
\* C30: once all upload_file calls of the same user with the same bytes
\* have returned successfully, the documents table holds at most one row
\* with that digest and user, the calls have left at most one object in the
\* object store, and all calls have returned the same document id.
C30_ConcurrentUploadsDeduplicated ==
    (\A c \in DOMAIN cpc : cpc[c] = "done" /\ cret[c].success) =>
        /\ Cardinality(RowsWithHash(cdocs, Sha256(SameUpload.file_data),
                                    SameUpload.user_id)) <= 1
        /\ Cardinality(cobjects) <= 1
        /\ \A c, e \in DOMAIN cpc : cret[c].document_id = cret[e].document_id

====
